---- MODULE Spec2Model ----
(***************************************************************************)
(* A model of the pycavalry type checker: the type lattice (is_subtype,    *)
(* union), the annotation interpreter, the expression checker, the         *)
(* statement checker with its scope stack, and the diagnostic reporter.    *)
(***************************************************************************)
EXTENDS Integers, Sequences, FiniteSets, TLC

VARIABLES
    scope,      \* Scope { global, scopes }              (scope.rs)
    reporter,   \* Reporter: the Vec of diagnostics      (reporter.rs)
    data,       \* StatementSynthData { returns, partial_list } (state.rs)
    stmt_no,    \* number of top-level statements error_check_file has walked
    inp,        \* argument of the pure function under study
    out         \* its result: <<>> before the call, <<r>> after it

vars == <<scope, reporter, data, stmt_no, inp, out>>

(***************************************************************************)
(* Bounds of the model.                                                    *)
(***************************************************************************)
MaxTupleLen == 1     \* longest tuple type in the subtype universe
MaxUnionArgs == 3    \* longest argument list handed to union()
MaxStmts == 3        \* top-level statements in a checked module

(***************************************************************************)
(* enum Type and enum TypeLiteral (types/base.rs).                         *)
(***************************************************************************)
TypeAny == [kind |-> "Any"]
TypeUnknown == [kind |-> "Unknown"]
TypeNever == [kind |-> "Never"]
TypeString == [kind |-> "String"]
TypeInt == [kind |-> "Int"]
TypeFloat == [kind |-> "Float"]
TypeBool == [kind |-> "Bool"]
TypeNone == [kind |-> "None"]
TypeEllipsis == [kind |-> "Ellipsis"]

StringLiteral(s) == [lk |-> "Str", sv |-> s]
IntLiteral(i) == [lk |-> "Int", iv |-> i]
FloatLiteral(s) == [lk |-> "Float", fv |-> s]
BooleanLiteral(b) == [lk |-> "Bool", bv |-> b]
NoneLiteral == [lk |-> "None"]
EllipsisLiteral == [lk |-> "Ellipsis"]

TypeLiteral(l) == [kind |-> "Literal", lit |-> l]
TypeTuple(ts) == [kind |-> "Tuple", elems |-> ts]
TypeUnion(ts) == [kind |-> "Union", elems |-> ts]
TypeFunction(as, names, r) ==
    [kind |-> "Function", args |-> as, arg_names |-> names, ret |-> r]
TypeClass(n) == [kind |-> "Class", name |-> n]
TypeModule(n, b) == [kind |-> "Module", name |-> n, bindings |-> b]

(***************************************************************************)
(* is_subtype (types/helpers.rs).  The arms are tried in source order.     *)
(***************************************************************************)
LiteralAtom(l) ==
    CASE l.lk = "Str" -> TypeString
      [] l.lk = "Int" -> TypeInt
      [] l.lk = "Float" -> TypeFloat
      [] l.lk = "Bool" -> TypeBool
      [] l.lk = "None" -> TypeNone
      [] l.lk = "Ellipsis" -> TypeEllipsis

\* A slip that leaves Unknown out of the gradual arms.
IsDynAnyOnly(t) == t.kind = "Any"

\* The pattern `Type::Any | Type::Unknown` of the first two match arms.
IsDyn(t) == t.kind \in {"Any", "Unknown"}

\* A slip that adds Bool <= Int without closing it under Int <= Float.
AtomSubtypeBoolInt(a, b) ==
    \/ (a.kind = "Int" /\ b.kind = "Float")
    \/ (a.kind = "Bool" /\ b.kind = "Int")

\* The arm `(Type::Int, Type::Float) => true`.
AtomSubtype(a, b) == a.kind = "Int" /\ b.kind = "Float"

RECURSIVE is_subtype(_, _)
is_subtype(a, b) ==
    IF a = b THEN TRUE
    ELSE IF a.kind = "Literal" THEN is_subtype(LiteralAtom(a.lit), b)
    ELSE IF IsDyn(a) THEN TRUE
    ELSE IF IsDyn(b) THEN TRUE
    ELSE IF AtomSubtype(a, b) THEN TRUE
    ELSE IF a.kind = "Never" THEN FALSE
    ELSE IF a.kind = "Union"
        THEN \A i \in DOMAIN a.elems : is_subtype(a.elems[i], b)
    ELSE IF b.kind = "Union"
        THEN \E i \in DOMAIN b.elems : is_subtype(a, b.elems[i])
    ELSE IF a.kind = "Function" /\ b.kind = "Function"
        THEN /\ Len(a.args) = Len(b.args)
             /\ \A i \in DOMAIN a.args : is_subtype(b.args[i], a.args[i])
             /\ is_subtype(a.ret, b.ret)
    ELSE IF a.kind = "Tuple" /\ b.kind = "Tuple"
        THEN /\ Len(a.elems) = Len(b.elems)
             /\ \A i \in DOMAIN a.elems : is_subtype(a.elems[i], b.elems[i])
    ELSE FALSE

(***************************************************************************)
(* collapse_subtypes, flatten, collapse_union_types, union                 *)
(* (types/helpers.rs).                                                     *)
(***************************************************************************)
\* The filter_map over types.zip(keep).
RECURSIVE KeepFrom(_, _, _)
KeepFrom(types, keep, i) ==
    IF i > Len(types) THEN <<>>
    ELSE (IF keep[i] THEN <<types[i]>> ELSE <<>>) \o KeepFrom(types, keep, i + 1)

\* A slip that keeps every arm of a group of equivalent arms.
collapse_subtypes_keep_ties(types) ==
    LET keep == [i1 \in DOMAIN types |->
                    \A i2 \in DOMAIN types :
                        \/ i1 = i2
                        \/ ~is_subtype(types[i1], types[i2])
                        \/ is_subtype(types[i2], types[i1])]
    IN  KeepFrom(types, keep, 1)

\* A slip that keeps the last of two equivalent arms, not the first.
collapse_subtypes_keep_last(types) ==
    LET keep == [i1 \in DOMAIN types |->
                    \A i2 \in DOMAIN types :
                        \/ i1 = i2
                        \/ ~is_subtype(types[i1], types[i2])
                        \/ (is_subtype(types[i2], types[i1]) /\ i1 > i2)]
    IN  KeepFrom(types, keep, 1)

collapse_subtypes(types) ==
    LET keep == [i1 \in DOMAIN types |->
                    \A i2 \in DOMAIN types :
                        \/ i1 = i2
                        \/ ~is_subtype(types[i1], types[i2])
                        \/ (is_subtype(types[i2], types[i1]) /\ i1 < i2)]
    IN  KeepFrom(types, keep, 1)

\* A slip that pushes a Union argument as it is.
flatten_none(types) == types

RECURSIVE flatten(_)
flatten(types) ==
    IF types = <<>> THEN <<>>
    ELSE (IF Head(types).kind = "Union" THEN Head(types).elems
          ELSE <<Head(types)>>) \o flatten(Tail(types))

collapse_union_types(types) == collapse_subtypes(flatten(types))

union(types) ==
    LET ts == collapse_union_types(types)
    IN  IF Len(ts) = 0 THEN TypeNever
        ELSE IF Len(ts) = 1 THEN ts[1]
        ELSE TypeUnion(ts)

(***************************************************************************)
(* Idle values of the variables a specification does not use.              *)
(***************************************************************************)
EmptyScope == [global |-> <<>>, scopes |-> <<>>]
\* Option<T> is a sequence of length at most one: <<>> is None, <<v>> is Some(v).
EmptyData == [returns |-> <<>>, partial_list |-> <<>>]

WalkerIdle ==
    /\ scope = EmptyScope
    /\ reporter = <<>>
    /\ data = EmptyData
    /\ stmt_no = 0

(***************************************************************************)
(* The types the subtype relation is exercised on.                         *)
(***************************************************************************)
SeqsUpTo(S, n) == UNION {[1..k -> S] : k \in 0..n}

Lit1 == TypeLiteral(IntLiteral(1))
LitA == TypeLiteral(StringLiteral("a"))

SubAtoms ==
    {TypeNever, TypeString, TypeInt, TypeFloat, TypeBool, TypeNone}
SubLiterals ==
    {Lit1, LitA, TypeLiteral(NoneLiteral), TypeLiteral(FloatLiteral("1.5")),
     TypeLiteral(BooleanLiteral(TRUE))}
SubUnions ==
    {union(<<x, y>>) : x, y \in {TypeInt, TypeString, TypeNever, Lit1, LitA}}
SubTuples ==
    {TypeTuple(ts) : ts \in SeqsUpTo({TypeInt, TypeFloat,
                                      union(<<Lit1, LitA>>)}, MaxTupleLen)}
SubFunctions ==
    {TypeFunction(<<>>, <<>>, TypeInt),
     TypeFunction(<<TypeInt>>, <<"x">>, TypeInt),
     TypeFunction(<<TypeFloat>>, <<"y">>, TypeInt),
     TypeFunction(<<TypeInt>>, <<"x">>, TypeFloat),
     TypeFunction(<<union(<<TypeInt, TypeString>>)>>, <<"x">>, Lit1)}
SubDynamic ==
    {TypeAny, TypeUnknown, TypeEllipsis, TypeClass("C"),
     TypeModule("sys", <<>>), TypeTuple(<<TypeAny>>)}

StaticTypes == SubAtoms \cup SubLiterals \cup SubUnions \cup SubTuples
                 \cup SubFunctions
SubtypeUniverse == StaticTypes \cup SubDynamic

\* TextRange::default()
NoRange == [start |-> 0, end |-> 0]

(***************************************************************************)
(* check (synth/expression.rs): the part after synth.  Returns the         *)
(* Option<TType> and the diagnostics it adds.                              *)
(***************************************************************************)
ExpectedButGotDiag(expected, got, range) ==
    [diag |-> "ExpectedButGot", level |-> "Error", expected |-> expected,
     got |-> got, range |-> range]

check_type(synth_type, typ, range) ==
    IF is_subtype(synth_type, typ)
    THEN [typ |-> <<synth_type>>, diags |-> <<>>]
    ELSE [typ |-> <<>>,
          diags |-> <<ExpectedButGotDiag(typ, synth_type, range)>>]

(***************************************************************************)
(* SpecSubtype: is_subtype and check applied to three types a, b, c.       *)
(***************************************************************************)
InitSubtype ==
    /\ WalkerIdle
    /\ inp \in [a : SubtypeUniverse, b : SubtypeUniverse, c : SubtypeUniverse]
    /\ out = <<>>

ApplyIsSubtype ==
    /\ out = <<>>
    /\ out' = <<[ab |-> is_subtype(inp.a, inp.b),
                 bc |-> is_subtype(inp.b, inp.c),
                 ac |-> is_subtype(inp.a, inp.c),
                 check_ab |-> check_type(inp.a, inp.b, NoRange)]>>
    /\ UNCHANGED <<scope, reporter, data, stmt_no, inp>>

NextSubtype == ApplyIsSubtype

SpecSubtype == InitSubtype /\ [][NextSubtype]_vars

(***************************************************************************)
(* Scope and ScopedType (scope.rs).  A ScopeMap is a function from names   *)
(* to ScopedType; an Option is a sequence of length at most one.           *)
(***************************************************************************)
ScopedType_new(typ) == [typ |-> typ, is_locked |-> FALSE]
ScopedType_locked(typ) == [typ |-> typ, is_locked |-> TRUE]

MapGet(m, k) == IF k \in DOMAIN m THEN <<m[k]>> ELSE <<>>
MapInsert(m, k, v) == [x \in DOMAIN m \cup {k} |-> IF x = k THEN v ELSE m[x]]

top_scope(sc) ==
    IF sc.scopes = <<>> THEN sc.global ELSE sc.scopes[Len(sc.scopes)]

\* scopes.iter().rev().chain(once(&global))
all_scopes(sc) ==
    [i \in 1..(Len(sc.scopes) + 1) |->
        IF i <= Len(sc.scopes) THEN sc.scopes[Len(sc.scopes) + 1 - i]
        ELSE sc.global]

\* A slip that falls back to the global map when the top frame has no
\* binding of the name.
get_top_ref_or_global(sc, name) ==
    IF name \in DOMAIN top_scope(sc) THEN <<top_scope(sc)[name]>>
    ELSE MapGet(sc.global, name)

get_top_ref(sc, name) == MapGet(top_scope(sc), name)

RECURSIVE FirstIn(_, _, _)
FirstIn(maps, name, i) ==
    IF i > Len(maps) THEN <<>>
    ELSE IF name \in DOMAIN maps[i] THEN <<maps[i][name]>>
    ELSE FirstIn(maps, name, i + 1)

get_ref(sc, name) == FirstIn(all_scopes(sc), name, 1)

\* A slip that always inserts into the global map.
Scope_set_global(sc, name, value) ==
    [sc EXCEPT !.global = MapInsert(@, name, value)]

Scope_set(sc, name, value) ==
    IF sc.scopes = <<>>
    THEN [sc EXCEPT !.global = MapInsert(@, name, value)]
    ELSE [sc EXCEPT !.scopes[Len(sc.scopes)] = MapInsert(@, name, value)]

add_scope(sc) == [sc EXCEPT !.scopes = Append(@, <<>>)]
pop_scope(sc) == [sc EXCEPT !.scopes = SubSeq(@, 1, Len(@) - 1)]

(***************************************************************************)
(* Display of types (types/base.rs).  A text is the sequence of the        *)
(* lexical tokens written; a token is its kind and its characters.         *)
(***************************************************************************)
Word(w) == [tok |-> "word", text |-> w]
Punct(c) == [tok |-> "punct", text |-> c]
Quoted(s) == [tok |-> "string", text |-> s]
Digits(d) == [tok |-> "number", text |-> d]

\* i64's Display on the integers of the model.
RECURSIVE DecimalText(_)
DecimalText(i) ==
    LET digit(d) ==
            CASE d = 0 -> "0" [] d = 1 -> "1" [] d = 2 -> "2" [] d = 3 -> "3"
              [] d = 4 -> "4" [] d = 5 -> "5" [] d = 6 -> "6" [] d = 7 -> "7"
              [] d = 8 -> "8" [] d = 9 -> "9"
    IN  IF i < 10 THEN digit(i)
        ELSE DecimalText(i \div 10) \o digit(i % 10)

RECURSIVE write_iter(_, _)
write_iter(texts, i) ==
    IF i > Len(texts) THEN <<>>
    ELSE texts[i] \o (IF i # Len(texts) THEN <<Punct(",")>> ELSE <<>>)
            \o write_iter(texts, i + 1)

display_type_literal_inside(l) ==
    CASE l.lk = "Str" -> <<Quoted(l.sv)>>
      [] l.lk = "Int" -> <<Digits(DecimalText(l.iv))>>
      [] l.lk = "Float" -> <<Digits(l.fv)>>
      [] l.lk = "Bool" -> <<Word(IF l.bv THEN "True" ELSE "False")>>
      [] l.lk = "None" -> <<Word("None")>>
      [] l.lk = "Ellipsis" -> <<Punct("...")>>

RECURSIVE Display(_)
Display(t) ==
    CASE t.kind = "Never" -> <<Word("Never")>>
      [] t.kind = "Any" -> <<Word("Any")>>
      [] t.kind = "Unknown" -> <<Word("Unknown")>>
      [] t.kind = "String" -> <<Word("str")>>
      [] t.kind = "Int" -> <<Word("int")>>
      [] t.kind = "Float" -> <<Word("float")>>
      [] t.kind = "Bool" -> <<Word("bool")>>
      [] t.kind = "None" -> <<Word("None")>>
      [] t.kind = "Ellipsis" -> <<Punct("...")>>
      [] t.kind = "Tuple" ->
            <<Word("tuple"), Punct("[")>>
                \o write_iter([i \in DOMAIN t.elems |-> Display(t.elems[i])], 1)
                \o <<Punct("]")>>
      [] t.kind = "Literal" ->
            <<Word("Literal"), Punct("[")>>
                \o display_type_literal_inside(t.lit) \o <<Punct("]")>>
      [] t.kind = "Function" ->
            <<Punct("(")>>
                \o write_iter([i \in DOMAIN t.args |->
                        <<Word(t.arg_names[i]), Punct(":")>>
                            \o Display(t.args[i])], 1)
                \o <<Punct(")"), Punct("->")>> \o Display(t.ret)
      [] t.kind = "Class" ->
            <<Word("type"), Punct("["), Word(t.name), Punct("]")>>
      [] t.kind = "Union" ->
            IF \A i \in DOMAIN t.elems : t.elems[i].kind = "Literal"
            THEN <<Word("Literal"), Punct("[")>>
                    \o write_iter([i \in DOMAIN t.elems |->
                            display_type_literal_inside(t.elems[i].lit)], 1)
                    \o <<Punct("]")>>
            ELSE <<Word("Union"), Punct("[")>>
                    \o write_iter([i \in DOMAIN t.elems |->
                            Display(t.elems[i])], 1)
                    \o <<Punct("]")>>
      [] t.kind = "Module" ->
            <<Word("module"), Punct("["), Word(t.name), Punct("]")>>
      [] t.kind = "PartialFunction" -> <<Word("Partial Func")>>

(***************************************************************************)
(* Expressions of the parser's AST (ruff_python_ast::Expr), as the         *)
(* checker matches on them.  A range is a pair of offsets, counted in      *)
(* tokens.                                                                 *)
(***************************************************************************)
Range(s, e) == [start |-> s, end |-> e]

ExprName(id) == [node |-> "Name", id |-> id, ctx |-> "Load", range |-> NoRange]
ExprSubscript(value, slice) ==
    [node |-> "Subscript", value |-> value, slice |-> slice, range |-> NoRange]
ExprTuple(elts) == [node |-> "Tuple", elts |-> elts, range |-> NoRange]
ExprStringLiteral(str) ==
    [node |-> "StringLiteral", value |-> str, range |-> NoRange]
ExprIntLiteral(i) ==
    [node |-> "NumberLiteral", number |-> "Int", int |-> i, range |-> NoRange]
\* An f64 is named by the text its Display writes ("1" for 1.0).
ExprFloatLiteral(f) ==
    [node |-> "NumberLiteral", number |-> "Float", float |-> f,
     range |-> NoRange]
\* The bool of a BooleanLiteral is named apart from the string of a
\* StringLiteral, which has the same fields otherwise.
ExprBooleanLiteral(b) ==
    [node |-> "BooleanLiteral", bool_value |-> b, range |-> NoRange]
ExprNoneLiteral == [node |-> "NoneLiteral", range |-> NoRange]
ExprEllipsisLiteral == [node |-> "EllipsisLiteral", range |-> NoRange]

At(e, s, n) == [e EXCEPT !.range = Range(s, n)]

\* The ranges the parser gives to the nodes of e when e starts at offset s.
RECURSIVE Locate(_, _), LocateAll(_, _, _)
Locate(e, s) ==
    CASE e.node = "Subscript" ->
            LET v == Locate(e.value, s)
                sl == Locate(e.slice, v.range.end + 1)
            IN  [e EXCEPT !.value = v, !.slice = sl,
                          !.range = Range(s, sl.range.end + 1)]
      [] e.node = "Tuple" ->
            LET es == LocateAll(e.elts, s, 1)
            IN  [e EXCEPT !.elts = es,
                          !.range = Range(s, IF es = <<>> THEN s
                                             ELSE es[Len(es)].range.end)]
      [] e.node = "Call" ->
            LET f == Locate(e.func, s)
                as == LocateAll(e.args, f.range.end + 1, 1)
            IN  [e EXCEPT !.func = f, !.args = as,
                          !.range = Range(s, IF as = <<>> THEN f.range.end + 2
                                             ELSE as[Len(as)].range.end + 1)]
      [] e.node = "Lambda" ->
            \* lambda, one token for each parameter, the colon, the body
            LET b == Locate(e.body, s + Len(e.params) + 2)
            IN  [e EXCEPT !.body = b, !.range = Range(s, b.range.end)]
      [] e.node = "Attribute" ->
            LET v == Locate(e.value, s)
            IN  [e EXCEPT !.value = v, !.range = Range(s, v.range.end + 2)]
      [] OTHER -> At(e, s, s + 1)
LocateAll(es, s, i) ==
    IF i > Len(es) THEN <<>>
    ELSE LET e == Locate(es[i], s)
         IN  <<e>> \o LocateAll(es, e.range.end + 1, i + 1)

(***************************************************************************)
(* ruff_python_parser::parse(text, Mode::Expression), on the texts that    *)
(* Display writes for atoms, literals, tuples and unions.                  *)
(***************************************************************************)
\* str::parse::<i64> on the integers of the model.
ParseInt(d) ==
    CASE d = "0" -> 0 [] d = "1" -> 1 [] d = "2" -> 2 [] d = "3" -> 3
      [] d = "4" -> 4 [] d = "5" -> 5 [] d = "13" -> 13

\* The number tokens that have a fraction, and the f64 each one denotes.
FloatSpellings == {"1.5", "1.0"}
ParseFloat(d) == CASE d = "1.5" -> "1.5" [] d = "1.0" -> "1"

parse_atom(t, i) ==
    CASE t.tok = "word" ->
            IF t.text = "None" THEN At(ExprNoneLiteral, i - 1, i)
            ELSE IF t.text \in {"True", "False"}
                THEN At(ExprBooleanLiteral(t.text = "True"), i - 1, i)
            ELSE At(ExprName(t.text), i - 1, i)
      [] t.tok = "number" ->
            IF t.text \in FloatSpellings
            THEN At(ExprFloatLiteral(ParseFloat(t.text)), i - 1, i)
            ELSE At(ExprIntLiteral(ParseInt(t.text)), i - 1, i)
      [] t.tok = "string" -> At(ExprStringLiteral(t.text), i - 1, i)
      [] t.tok = "punct" /\ t.text = "..." -> At(ExprEllipsisLiteral, i - 1, i)

RECURSIVE parse_expr(_, _), parse_trailers(_, _, _), parse_slices(_, _, _)
parse_expr(toks, i) == parse_trailers(toks, parse_atom(toks[i], i), i + 1)
parse_trailers(toks, e, i) ==
    IF i <= Len(toks) /\ toks[i] = Punct("[")
    THEN LET sl == parse_slices(toks, i + 1, <<>>)
             slice == IF Len(sl.elts) = 1 THEN sl.elts[1]
                      ELSE At(ExprTuple(sl.elts), sl.elts[1].range.start,
                              sl.elts[Len(sl.elts)].range.end)
         IN  parse_trailers(toks,
                 At(ExprSubscript(e, slice), e.range.start, sl.next),
                 sl.next + 1)
    ELSE [e |-> e, next |-> i]
parse_slices(toks, i, acc) ==
    LET r == parse_expr(toks, i)
    IN  IF toks[r.next] = Punct(",")
        THEN parse_slices(toks, r.next + 1, Append(acc, r.e))
        ELSE [elts |-> Append(acc, r.e), next |-> r.next]

parse(text) == parse_expr(text, 1).e

(***************************************************************************)
(* Diagnostics (diagnostic.rs, custom_diagnostics.rs).  A message body is  *)
(* the sequence of its words followed by the displayed values.             *)
(***************************************************************************)
Diagnostic_error(body, range) ==
    [diag |-> "Diagnostic", level |-> "Error", body |-> body, range |-> range]
NotInScopeDiag(name, range) ==
    [diag |-> "NotInScope", level |-> "Error", name |-> name, range |-> range]
CantReassignLockedDiag(expected, got, name, range) ==
    [diag |-> "CantReassignLocked", level |-> "Error", expected |-> expected,
     got |-> got, name |-> name, range |-> range]
RevealTypeDiag(typ, range) ==
    [diag |-> "RevealType", level |-> "Info", typ |-> typ, range |-> range]

(***************************************************************************)
(* The annotation interpreter (synth/annotation.rs).                       *)
(***************************************************************************)
AnnotationType(value, range) == [ak |-> "Type", value |-> value, range |-> range]
PartialAnnotation(annotation, arguments, range) ==
    [ak |-> "PartialAnnotation", annotation |-> annotation,
     arguments |-> arguments, range |-> range]

\* impl Display for PartialAnnotationType
DisplayPartial(annotation) ==
    CASE annotation = "Union" -> <<Word("Union")>>
      [] annotation = "Literal" -> <<Word("Literal")>>
      [] annotation = "Tuple" -> <<Word("tuple")>>

\* A slip that keeps interpreting the remaining arguments after one failed.
SynthArgsKeepGoing(results, i) ==
    LET RECURSIVE All(_)
        All(k) ==
            IF k > Len(results) THEN [failed |-> FALSE, args |-> <<>>, diags |-> <<>>]
            ELSE LET rest == All(k + 1)
                 IN  [failed |-> results[k].ann = <<>> \/ rest.failed,
                      args |-> results[k].ann \o rest.args,
                      diags |-> results[k].diags \o rest.diags]
    IN  All(i)

\* The `?` on each argument: the first argument that fails ends the loop,
\* and the later ones are never interpreted.
RECURSIVE SynthArgs(_, _)
SynthArgs(results, i) ==
    IF i > Len(results) THEN [failed |-> FALSE, args |-> <<>>, diags |-> <<>>]
    ELSE IF results[i].ann = <<>>
        THEN [failed |-> TRUE, args |-> <<>>, diags |-> results[i].diags]
    ELSE LET rest == SynthArgs(results, i + 1)
         IN  [failed |-> rest.failed,
              args |-> results[i].ann \o rest.args,
              diags |-> results[i].diags \o rest.diags]

RECURSIVE _synth_annotation(_, _)
_synth_annotation(sc, maybe_ast) ==
    IF maybe_ast = <<>>
    THEN [ann |-> <<AnnotationType(TypeUnknown, NoRange)>>, diags |-> <<>>]
    ELSE
    LET ast == maybe_ast[1] IN
    CASE ast.node = "Subscript" ->
            LET v == _synth_annotation(sc, <<ast.value>>)
            IN  IF v.ann = <<>> THEN v
                ELSE IF v.ann[1].ak = "Type"
                THEN [ann |-> <<>>,
                      diags |-> v.diags \o <<Diagnostic_error(
                          <<Word("Type")>> \o Display(v.ann[1].value)
                              \o <<Word("doesn't support type arguments.")>>,
                          ast.value.range)>>]
                ELSE
                LET elts == IF ast.slice.node = "Tuple" THEN ast.slice.elts
                            ELSE <<ast.slice>>
                    args == SynthArgs([i \in DOMAIN elts |->
                                _synth_annotation(sc, <<elts[i]>>)], 1)
                IN  IF args.failed
                    THEN [ann |-> <<>>, diags |-> v.diags \o args.diags]
                    ELSE [ann |-> <<[v.ann[1] EXCEPT
                                        !.arguments = @ \o args.args]>>,
                          diags |-> v.diags \o args.diags]
      [] ast.node = "Name" ->
            LET found == get_ref(sc, ast.id)
            IN  IF found # <<>>
                THEN [ann |-> <<AnnotationType(found[1].typ, ast.range)>>,
                      diags |-> <<>>]
                ELSE IF ast.id \in {"Union", "Literal", "Tuple", "tuple"}
                THEN [ann |-> <<PartialAnnotation(
                                  IF ast.id \in {"Tuple", "tuple"} THEN "Tuple"
                                  ELSE ast.id, <<>>, ast.range)>>,
                      diags |-> <<>>]
                ELSE IF ast.id \in {"Any", "Unknown", "str", "int", "float",
                                    "bool", "None", "..."}
                THEN [ann |-> <<AnnotationType(
                          CASE ast.id = "Any" -> TypeAny
                            [] ast.id = "Unknown" -> TypeUnknown
                            [] ast.id = "str" -> TypeString
                            [] ast.id = "int" -> TypeInt
                            [] ast.id = "float" -> TypeFloat
                            [] ast.id = "bool" -> TypeBool
                            [] ast.id = "None" -> TypeNone
                            [] ast.id = "..." -> TypeEllipsis,
                          ast.range)>>,
                      diags |-> <<>>]
                ELSE [ann |-> <<>>,
                      diags |-> <<NotInScopeDiag(ast.id, ast.range)>>]
      [] ast.node = "StringLiteral" ->
            [ann |-> <<AnnotationType(
                        TypeLiteral(StringLiteral(ast.value)), ast.range)>>,
             diags |-> <<>>]
      [] ast.node = "NumberLiteral" ->
            [ann |-> <<AnnotationType(
                        TypeLiteral(IF ast.number = "Int"
                                    THEN IntLiteral(ast.int)
                                    ELSE FloatLiteral(ast.float)), ast.range)>>,
             diags |-> <<>>]
      [] ast.node = "BooleanLiteral" ->
            [ann |-> <<AnnotationType(
                        TypeLiteral(BooleanLiteral(ast.bool_value)),
                        ast.range)>>,
             diags |-> <<>>]
      [] ast.node = "NoneLiteral" ->
            [ann |-> <<AnnotationType(TypeLiteral(NoneLiteral), ast.range)>>,
             diags |-> <<>>]
      [] ast.node = "EllipsisLiteral" ->
            [ann |-> <<AnnotationType(TypeLiteral(EllipsisLiteral), ast.range)>>,
             diags |-> <<>>]

\* collect::<Result<Vec<TType>, _>>(): the Ok values, or the first Err.
RECURSIVE CollectResults(_, _)
CollectResults(results, i) ==
    IF i > Len(results) THEN [ok |-> TRUE, typs |-> <<>>]
    ELSE IF ~results[i].ok THEN results[i]
    ELSE LET rest == CollectResults(results, i + 1)
         IN  IF rest.ok THEN [ok |-> TRUE, typs |-> <<results[i].typ>> \o rest.typs]
             ELSE rest

\* A slip that lets an argument that is not a literal through.
VerifyLiteralsLax(arguments, i) ==
    [ok |-> TRUE,
     typs |-> [k \in DOMAIN arguments |->
                 IF arguments[k].ak = "Type" THEN arguments[k].value
                 ELSE TypeUnknown]]

\* The loop of the Literal arm: every argument must be a Type(Literal).
RECURSIVE VerifyLiterals(_, _)
VerifyLiterals(arguments, i) ==
    IF i > Len(arguments) THEN [ok |-> TRUE, typs |-> <<>>]
    ELSE LET arg == arguments[i] IN
         IF arg.ak = "Type"
         THEN IF arg.value.kind = "Literal"
              THEN LET rest == VerifyLiterals(arguments, i + 1)
                   IN  IF rest.ok
                       THEN [ok |-> TRUE,
                             typs |-> <<TypeLiteral(arg.value.lit)>> \o rest.typs]
                       ELSE rest
              ELSE [ok |-> FALSE,
                    err |-> Diagnostic_error(
                        <<Word("Expecting literal, found")>>
                            \o Display(arg.value), arg.range)]
         ELSE [ok |-> FALSE,
               err |-> Diagnostic_error(
                   <<Word("Expecting literal, found")>>
                       \o DisplayPartial(arg.annotation), arg.range)]

RECURSIVE verify_annotation(_)
verify_annotation(ann) ==
    IF ann.ak = "Type" THEN [ok |-> TRUE, typ |-> ann.value]
    ELSE
    CASE ann.annotation = "Union" ->
            LET r == CollectResults([i \in DOMAIN ann.arguments |->
                        verify_annotation(ann.arguments[i])], 1)
            IN  IF r.ok THEN [ok |-> TRUE, typ |-> union(r.typs)] ELSE r
      [] ann.annotation = "Literal" ->
            LET r == VerifyLiterals(ann.arguments, 1)
            IN  IF r.ok THEN [ok |-> TRUE, typ |-> union(r.typs)] ELSE r
      [] ann.annotation = "Tuple" ->
            LET r == CollectResults([i \in DOMAIN ann.arguments |->
                        verify_annotation(ann.arguments[i])], 1)
            IN  IF r.ok THEN [ok |-> TRUE, typ |-> TypeTuple(r.typs)] ELSE r

\* Returns the type and the diagnostics added to info.reporter.
synth_annotation(sc, maybe_ast) ==
    LET Verified(a, r) ==
            IF r.ok THEN [typ |-> r.typ, diags |-> a.diags]
            ELSE [typ |-> TypeUnknown, diags |-> a.diags \o <<r.err>>]
        Staged(a) ==
            IF a.ann = <<>> THEN [typ |-> TypeUnknown, diags |-> a.diags]
            ELSE Verified(a, verify_annotation(a.ann[1]))
    IN  Staged(_synth_annotation(sc, maybe_ast))

(***************************************************************************)
(* The expression checker: synth and check (synth/expression.rs).  Both    *)
(* return the type together with the diagnostics they add to the reporter; *)
(* neither writes to the scope.                                            *)
(***************************************************************************)
ExprCall(func, args) ==
    [node |-> "Call", func |-> func, args |-> args, keywords |-> 0,
     range |-> NoRange]
ExprLambda(params, body) ==
    [node |-> "Lambda", params |-> params, body |-> body, range |-> NoRange]
ExprAttribute(value, attr) ==
    [node |-> "Attribute", value |-> value, attr |-> attr, range |-> NoRange]

\* A literal too large for as_i64(): Number::Int holding a big integer.
ExprBigIntLiteral ==
    [node |-> "NumberLiteral", number |-> "BigInt", range |-> NoRange]

\* What synth leaves: the type, the diagnostics added to the reporter, and
\* whether it unwound with a panic (unwrap() on None, unimplemented!).
Synthed(typ, diags) == [typ |-> typ, diags |-> diags, panic |-> FALSE]
Panicked(diags) == [typ |-> TypeUnknown, diags |-> diags, panic |-> TRUE]

RECURSIVE synth(_, _), synth_all(_, _, _), check_args(_, _, _, _)

\* A slip that reports the revealed type before the argument's diagnostics.
synth_reveal_type_first(sc, ast) ==
    IF ast.args = <<>> THEN Panicked(<<>>)
    ELSE
    LET t == synth(sc, ast.args[1])
    IN  IF t.panic THEN t
        ELSE Synthed(TypeUnknown,
                     <<RevealTypeDiag(t.typ, ast.args[1].range)>> \o t.diags)

\* The early handling of reveal_type in the Expr::Call arm.
synth_reveal_type(sc, ast) ==
    IF ast.args = <<>> THEN Panicked(<<>>)   \* .first().unwrap()
    ELSE
    LET t == synth(sc, ast.args[1])
    IN  IF t.panic THEN t
        ELSE Synthed(TypeUnknown,
                     t.diags \o <<RevealTypeDiag(t.typ, ast.args[1].range)>>)

synth(sc, ast) ==
    CASE ast.node = "NoneLiteral" -> Synthed(TypeNone, <<>>)
      [] ast.node = "BooleanLiteral" ->
            Synthed(TypeLiteral(BooleanLiteral(ast.bool_value)), <<>>)
      [] ast.node = "NumberLiteral" ->
            IF ast.number = "BigInt" THEN Panicked(<<>>)  \* as_i64().unwrap()
            ELSE Synthed(TypeLiteral(IF ast.number = "Int"
                                     THEN IntLiteral(ast.int)
                                     ELSE FloatLiteral(ast.float)), <<>>)
      [] ast.node = "StringLiteral" ->
            Synthed(TypeLiteral(StringLiteral(ast.value)), <<>>)
      [] ast.node = "Name" /\ ast.ctx = "Load" ->
            LET found == get_ref(sc, ast.id)
            IN  IF found # <<>> THEN Synthed(found[1].typ, <<>>)
                ELSE Synthed(TypeUnknown,
                             <<NotInScopeDiag(ast.id, ast.range)>>)
      [] ast.node = "Lambda" ->
            \* the parameters are not written to the scope
            LET ret == synth(sc, ast.body)
            IN  IF ret.panic THEN ret
                ELSE Synthed(
                        TypeFunction([i \in DOMAIN ast.params |-> TypeUnknown],
                                     ast.params, ret.typ),
                        ret.diags)
      [] ast.node = "Call" ->
            IF ast.func.node = "Name" /\ ast.func.id = "reveal_type"
            THEN synth_reveal_type(sc, ast)
            ELSE
            LET f == synth(sc, ast.func)
            IN  IF f.panic THEN f
                ELSE IF f.typ.kind # "Function"
                THEN Synthed(TypeUnknown,
                        f.diags \o <<Diagnostic_error(
                            Display(f.typ) \o <<Word("not callable")>>,
                            ast.func.range)>>)
                ELSE IF Len(f.typ.args) # Len(ast.args) + ast.keywords
                THEN Synthed(TypeUnknown,
                        f.diags \o <<Diagnostic_error(
                            <<Word("expected"),
                              Digits(DecimalText(Len(f.typ.args))),
                              Word("args, got"),
                              Digits(DecimalText(Len(ast.args))),
                              Word("args")>>,
                            ast.range)>>)
                ELSE check_args(sc, ast.args, f, 1)
      [] ast.node = "Attribute" ->
            LET v == synth(sc, ast.value)
            IN  IF v.panic THEN v
                ELSE IF v.typ.kind = "Module"
                THEN Synthed(IF ast.attr \in DOMAIN v.typ.bindings
                             THEN v.typ.bindings[ast.attr].typ
                             ELSE TypeUnknown,
                             v.diags)
                ELSE Synthed(TypeUnknown,
                        v.diags \o <<Diagnostic_error(
                            <<Word("Unknown attribute"), Quoted(ast.attr),
                              Word("for")>> \o Display(v.typ),
                            ast.range)>>)
      [] ast.node = "Tuple" ->
            LET rs == synth_all(sc, ast.elts, 1)
            IN  IF rs.panic THEN Panicked(rs.diags)
                ELSE Synthed(TypeTuple(rs.typs), rs.diags)
      [] OTHER -> Panicked(<<>>)     \* unimplemented!

\* The elements of a tuple, in order, from element i on.
synth_all(sc, elts, i) ==
    IF i > Len(elts) THEN [typs |-> <<>>, diags |-> <<>>, panic |-> FALSE]
    ELSE
    LET t == synth(sc, elts[i])
    IN  IF t.panic THEN [typs |-> <<>>, diags |-> t.diags, panic |-> TRUE]
        ELSE LET rest == synth_all(sc, elts, i + 1)
             IN  [typs |-> <<t.typ>> \o rest.typs,
                  diags |-> t.diags \o rest.diags, panic |-> rest.panic]

\* The loop that checks the arguments of a call against the parameters of
\* the callee f, from argument i on; the call has the callee's return type.
check_args(sc, args, f, i) ==
    IF i > Len(args) THEN Synthed(f.typ.ret, f.diags)
    ELSE
    LET st == synth(sc, args[i])
    IN  IF st.panic THEN Panicked(f.diags \o st.diags)
        ELSE check_args(sc, args,
                [f EXCEPT !.diags = @ \o st.diags
                    \o check_type(st.typ, f.typ.args[i], args[i].range).diags],
                i + 1)

\* check: the Option<TType> and the diagnostics added.
check(sc, ast, typ) ==
    LET Compared(st, c) ==
            [typ |-> c.typ, diags |-> st.diags \o c.diags, panic |-> FALSE]
        Checked(st) ==
            IF st.panic THEN [typ |-> <<>>, diags |-> st.diags, panic |-> TRUE]
            ELSE Compared(st, check_type(st.typ, typ, ast.range))
    IN  Checked(synth(sc, ast))

(***************************************************************************)
(* The statement checker (synth/statement.rs).  Each arm returns the       *)
(* scope and the StatementSynthData it leaves and the diagnostics it adds. *)
(***************************************************************************)
StmtAnnAssign(target, annotation, value) ==
    [node |-> "AnnAssign", target |-> target, annotation |-> annotation,
     value |-> value, range |-> NoRange]
StmtAssign(targets, value) ==
    [node |-> "Assign", targets |-> targets, value |-> value,
     range |-> NoRange]
StmtExpr(value) == [node |-> "Expr", value |-> value, range |-> NoRange]

\* ret.value is an Option; the field is named apart from the value of
\* StmtExpr, which is an expression.
StmtReturn(value) ==
    [node |-> "Return", ret_value |-> value, range |-> NoRange]
Parameter(name, annotation, default) ==
    [name |-> name, annotation |-> annotation, default |-> default]
StmtFunctionDef(name, params, returns, body) ==
    [node |-> "FunctionDef", name |-> name, params |-> params,
     returns |-> returns, body |-> body, range |-> NoRange]
StmtClassDef(name) == [node |-> "ClassDef", name |-> name, range |-> NoRange]
StmtPass == [node |-> "Pass", range |-> NoRange]
Alias(name, asname) == [name |-> name, asname |-> asname, range |-> NoRange]
StmtImport(names) == [node |-> "Import", names |-> names, range |-> NoRange]
StmtImportFrom(module, names) ==
    [node |-> "ImportFrom", module |-> module, names |-> names,
     range |-> NoRange]
\* A statement check_statement has no arm for.
StmtDelete == [node |-> "Delete", range |-> NoRange]

\* What a statement leaves: the scope, the StatementSynthData, the
\* diagnostics added, and whether it unwound with a panic.
Walked(sc, dt, diags) ==
    [scope |-> sc, data |-> dt, diags |-> diags, panic |-> FALSE]
Unwound(sc, dt, diags) ==
    [scope |-> sc, data |-> dt, diags |-> diags, panic |-> TRUE]

\* A slip that accepts a re-annotation with the very type already locked.
ann_assign_bind_same_ok(sc, dt, stmt, annotation, checked) ==
    LET scoped == get_top_ref(sc, stmt.target.id)
    IN  IF scoped # <<>> /\ scoped[1].is_locked
            /\ scoped[1].typ # annotation.typ
        THEN Walked(sc, dt, annotation.diags \o checked
                  \o <<CantReassignLockedDiag(scoped[1].typ, annotation.typ,
                          stmt.target.id, stmt.range)>>)
        ELSE Walked(Scope_set(sc, stmt.target.id,
                              ScopedType_locked(annotation.typ)),
                    dt, annotation.diags \o checked)

\* A slip that reports the lock before the diagnostics of the value check.
ann_assign_bind_lock_first(sc, dt, stmt, annotation, checked) ==
    LET scoped == get_top_ref(sc, stmt.target.id)
    IN  IF scoped # <<>> /\ scoped[1].is_locked
        THEN Walked(sc, dt, annotation.diags
                  \o <<CantReassignLockedDiag(scoped[1].typ, annotation.typ,
                          stmt.target.id, stmt.range)>> \o checked)
        ELSE Walked(Scope_set(sc, stmt.target.id,
                              ScopedType_locked(annotation.typ)),
                    dt, annotation.diags \o checked)

\* Stmt::AnnAssign, the match on the target: annotation is the result of
\* synth_annotation and checked the diagnostics of the value check.
ann_assign_bind(sc, dt, stmt, annotation, checked) ==
    LET scoped == get_top_ref(sc, stmt.target.id)
    IN  IF scoped # <<>> /\ scoped[1].is_locked
        THEN Walked(sc, dt, annotation.diags \o checked
                  \o <<CantReassignLockedDiag(scoped[1].typ, annotation.typ,
                          stmt.target.id, stmt.range)>>)
        ELSE Walked(Scope_set(sc, stmt.target.id,
                              ScopedType_locked(annotation.typ)),
                    dt, annotation.diags \o checked)

\* Stmt::AnnAssign
check_ann_assign(sc, dt, stmt) ==
    LET Bind(annotation, checked) ==
            IF checked.panic
            THEN Unwound(sc, dt, annotation.diags \o checked.diags)
            ELSE IF stmt.target.node # "Name"
            THEN Unwound(sc, dt, annotation.diags \o checked.diags)
            ELSE ann_assign_bind(sc, dt, stmt, annotation, checked.diags)
        Annotated(annotation) ==
            Bind(annotation,
                 IF stmt.value # <<>>
                 THEN check(sc, stmt.value[1], annotation.typ)
                 ELSE [typ |-> <<>>, diags |-> <<>>, panic |-> FALSE])
    IN  Annotated(synth_annotation(sc, <<stmt.annotation>>))

\* Stmt::Assign: the loop over the targets, from target i on.  A failed
\* check against a locked binding returns from the whole statement.
RECURSIVE assign_targets(_, _, _, _)
assign_targets(sc, stmt, i, diags) ==
    IF i > Len(stmt.targets)
    THEN [scope |-> sc, diags |-> diags, panic |-> FALSE]
    ELSE IF stmt.targets[i].node # "Name"
    THEN [scope |-> sc, diags |-> diags, panic |-> TRUE]
    ELSE
    LET name == stmt.targets[i].id
        scoped == get_top_ref(sc, name)
        \* typ is the Option the match produces: None returns
        Assigned(typ) ==
            IF typ.panic \/ typ.typ = <<>>
            THEN [scope |-> sc, diags |-> diags \o typ.diags,
                  panic |-> typ.panic]
            ELSE assign_targets(
                    Scope_set(sc, name, ScopedType_new(typ.typ[1])),
                    stmt, i + 1, diags \o typ.diags)
        Some(t) == [t EXCEPT !.typ = <<@>>]
    IN  IF scoped # <<>> /\ scoped[1].is_locked
        THEN Assigned(check(sc, stmt.value, scoped[1].typ))
        ELSE Assigned(Some(synth(sc, stmt.value)))

check_assign(sc, dt, stmt) ==
    LET Done(r) ==
            [scope |-> r.scope, data |-> dt, diags |-> r.diags,
             panic |-> r.panic]
    IN  Done(assign_targets(sc, stmt, 1, <<>>))

\* struct PartialFunction and Type::PartialFunction; the three fields are
\* Options.
PartialFunction(name, args, arg_names, ret) ==
    [name |-> name, args |-> args, arg_names |-> arg_names, ret |-> ret]
TypePartialFunction(func) == [kind |-> "PartialFunction", func |-> func]

\* impl TryFrom<PartialFunction> for Function: <<>> stands for Err(value).
Function_try_from(value) ==
    IF value.args # <<>> /\ value.arg_names # <<>> /\ value.ret # <<>>
    THEN <<TypeFunction(value.args[1], value.arg_names[1], value.ret[1])>>
    ELSE <<>>

StatementSynthDataReturn_new(annotation) ==
    [annotation |-> annotation, found_types |-> <<>>]

\* load_module: the hard-coded bindings of the built-in modules.
load_module(path) ==
    CASE path = "sys" ->
            MapInsert(<<>>, "version_info",
                ScopedType_new(TypeTuple(<<TypeLiteral(IntLiteral(3)),
                                           TypeLiteral(IntLiteral(13))>>)))
      [] path = "typing" ->
            MapInsert(<<>>, "reveal_type",
                ScopedType_new(TypeFunction(<<TypeAny>>, <<"obj">>, TypeAny)))
      [] OTHER -> <<>>

\* Stmt::Import: the loop over the aliases, from alias i on.
RECURSIVE import_names(_, _, _)
import_names(sc, names, i) ==
    IF i > Len(names) THEN sc
    ELSE LET name == names[i].name
         IN  import_names(
                Scope_set(sc, name, ScopedType_new(
                    TypeModule(IF names[i].asname # <<>>
                               THEN names[i].asname[1] ELSE name,
                               load_module(name)))),
                names, i + 1)

\* Stmt::ImportFrom: the loop over the aliases of `from module import ...`.
RECURSIVE import_from_names(_, _, _, _, _)
import_from_names(sc, module, names, i, diags) ==
    IF i > Len(names) THEN [scope |-> sc, diags |-> diags]
    ELSE LET name == names[i].name
         IN  IF name \notin DOMAIN module
             THEN import_from_names(sc, module, names, i + 1,
                    diags \o <<NotInScopeDiag(name, names[i].range)>>)
             ELSE import_from_names(Scope_set(sc, name, module[name]),
                    module, names, i + 1, diags)

\* Stmt::Return
check_return(sc, dt, stmt) ==
    LET Found(c) ==
            IF c.panic THEN Unwound(sc, dt, c.diags)
            ELSE Walked(sc,
                    [dt EXCEPT !.returns[1].found_types =
                        Append(@, IF c.typ = <<>> THEN TypeUnknown
                                  ELSE c.typ[1])],
                    c.diags)
    IN  IF dt.returns = <<>>
        THEN Walked(sc, dt, <<Diagnostic_error(
                <<Word("Can't return outside of function.")>>, stmt.range)>>)
        ELSE IF stmt.ret_value = <<>>
        THEN Walked(sc, [dt EXCEPT !.returns[1].found_types =
                            Append(@, TypeNone)], <<>>)
        ELSE Found(check(sc, stmt.ret_value[1], dt.returns[1].annotation))

\* check_func, the loop that loads the parameters, from parameter i on;
\* acc holds the scope, args, arg_names and diagnostics so far.
RECURSIVE load_args(_, _, _)
load_args(acc, params, i) ==
    IF i > Len(params) THEN acc
    ELSE
    LET Loaded(annotation, default) ==
            IF default.panic
            THEN [acc EXCEPT !.diags = @ \o annotation.diags \o default.diags,
                             !.panic = TRUE]
            ELSE load_args(
                    [acc EXCEPT
                        !.scope = Scope_set(@, params[i].name,
                                            ScopedType_new(annotation.typ)),
                        !.args = Append(@, IF default.typ = <<>>
                                           THEN TypeUnknown
                                           ELSE default.typ[1]),
                        !.arg_names = Append(@, params[i].name),
                        !.diags = @ \o annotation.diags \o default.diags],
                    params, i + 1)
        Annotated(annotation) ==
            Loaded(annotation,
                   IF params[i].default # <<>>
                   THEN check(acc.scope, params[i].default[1], annotation.typ)
                   ELSE [typ |-> <<annotation.typ>>, diags |-> <<>>,
                         panic |-> FALSE])
    IN  Annotated(synth_annotation(acc.scope, params[i].annotation))

\* A slip that leaves the frame of the function on the stack.
finish_func_keep_frame(walked, prev_data, func) ==
    [scope |-> walked.scope,
     data |-> [walked.data EXCEPT !.returns = prev_data],
     diags |-> walked.diags, panic |-> FALSE,
     func |-> [func EXCEPT !.ret =
                  <<union(walked.data.returns[1].found_types)>>]]

\* A slip that never fills in the return type of the partial function.
finish_func_unset_ret(walked, prev_data, func) ==
    [scope |-> pop_scope(walked.scope),
     data |-> [walked.data EXCEPT !.returns = prev_data],
     diags |-> walked.diags, panic |-> FALSE,
     func |-> [func EXCEPT !.ret = <<>>]]

\* A slip that leaves the function's own return data installed.
finish_func_keep_returns(walked, prev_data, func) ==
    [scope |-> pop_scope(walked.scope),
     data |-> walked.data,
     diags |-> walked.diags, panic |-> FALSE,
     func |-> [func EXCEPT !.ret =
                  <<union(walked.data.returns[1].found_types)>>]]

\* check_func after the body has been walked: the return data of the outer
\* function is put back, ret becomes the union of the found types, and the
\* frame is popped (pop_scope asserts that there is one).
finish_func(walked, prev_data, func) ==
    IF walked.data.returns = <<>> \/ walked.scope.scopes = <<>>
    THEN [scope |-> walked.scope, data |-> walked.data,
          diags |-> walked.diags, panic |-> TRUE, func |-> func]
    ELSE [scope |-> pop_scope(walked.scope),
          data |-> [walked.data EXCEPT !.returns = prev_data],
          diags |-> walked.diags, panic |-> FALSE,
          func |-> [func EXCEPT !.ret =
                       <<union(walked.data.returns[1].found_types)>>]]

RECURSIVE check_statement(_, _, _), walk_body(_, _, _), check_func(_, _, _)

\* The loop over the statements of a function body, from statement i on;
\* acc is what the statements so far have left.
walk_body(acc, body, i) ==
    LET Next_(r) == walk_body([r EXCEPT !.diags = acc.diags \o @], body, i + 1)
    IN  IF i > Len(body) \/ acc.panic THEN acc
        ELSE Next_(check_statement(acc.scope, acc.data, body[i]))

\* check_func: def is the StmtFunctionDef held by the PartialFunction.
check_func(sc, dt, def) ==
    LET Finished(func, walked) ==
            IF walked.panic
            THEN [scope |-> walked.scope, data |-> walked.data,
                  diags |-> walked.diags, panic |-> TRUE, func |-> func]
            ELSE finish_func(walked, dt.returns, func)
        Loaded(expected_ret, loaded) ==
            IF loaded.panic
            THEN [scope |-> loaded.scope, data |-> dt,
                  diags |-> loaded.diags, panic |-> TRUE,
                  func |-> PartialFunction(def.name, <<>>, <<>>, <<>>)]
            ELSE Finished(
                    PartialFunction(def.name, <<loaded.args>>,
                                    <<loaded.arg_names>>, <<TypeUnknown>>),
                    walk_body(
                        [scope |-> loaded.scope,
                         data |-> [dt EXCEPT !.returns =
                            <<StatementSynthDataReturn_new(expected_ret.typ)>>],
                         diags |-> loaded.diags, panic |-> FALSE],
                        def.body, 1))
        Expected(expected_ret) ==
            Loaded(expected_ret,
                   load_args([scope |-> add_scope(sc), args |-> <<>>,
                              arg_names |-> <<>>,
                              diags |-> expected_ret.diags, panic |-> FALSE],
                             def.params, 1))
    IN  Expected(synth_annotation(sc, def.returns))

\* Stmt::FunctionDef
check_function_def(sc, dt, stmt) ==
    LET Bound(r, typ) ==
            IF r.panic THEN Unwound(r.scope, r.data, r.diags)
            ELSE IF typ # <<>>
            THEN Walked(Scope_set(r.scope, stmt.name, ScopedType_new(typ[1])),
                        r.data, r.diags)
            ELSE Walked(Scope_set(r.scope, stmt.name,
                            ScopedType_new(TypePartialFunction(r.func))),
                        [r.data EXCEPT !.partial_list = Append(@, stmt.name)],
                        r.diags)
        Checked(r) == Bound(r, Function_try_from(r.func))
    IN  Checked(check_func(sc, dt, stmt))

check_statement(sc, dt, stmt) ==
    LET Synthed_(t) ==
            [scope |-> sc, data |-> dt, diags |-> t.diags, panic |-> t.panic]
        Imported(r) == Walked(r.scope, dt, r.diags)
    IN
    CASE stmt.node = "AnnAssign" -> check_ann_assign(sc, dt, stmt)
      [] stmt.node = "Assign" -> check_assign(sc, dt, stmt)
      [] stmt.node = "Expr" -> Synthed_(synth(sc, stmt.value))
      [] stmt.node = "Return" -> check_return(sc, dt, stmt)
      [] stmt.node = "FunctionDef" -> check_function_def(sc, dt, stmt)
      [] stmt.node = "ClassDef" ->
            Walked(Scope_set(sc, stmt.name,
                             ScopedType_new(TypeClass(stmt.name))), dt, <<>>)
      [] stmt.node = "Pass" -> Walked(sc, dt, <<>>)
      [] stmt.node = "Import" ->
            Walked(import_names(sc, stmt.names, 1), dt, <<>>)
      [] stmt.node = "ImportFrom" ->
            IF stmt.module = <<>> THEN Unwound(sc, dt, <<>>)  \* expect()
            ELSE Imported(import_from_names(sc, load_module(stmt.module[1]),
                                            stmt.names, 1, <<>>))
      [] OTHER -> Unwound(sc, dt, <<>>)    \* panic!("Statement not yet supported")

(***************************************************************************)
(* Spec: error_check_file (lib.rs) walks the top-level statements of a     *)
(* module in source order; one step is one call of check_statement.        *)
(***************************************************************************)
StmtWidth == 20      \* offsets reserved for one top-level statement

\* The ranges of the parameters of a def, the first token of parameter i
\* being at offset s: name, `:` annotation, `=` default, `,`.
RECURSIVE LocateParams(_, _, _)
LocateParams(params, s, i) ==
    IF i > Len(params) THEN <<>>
    ELSE
    LET ann == IF params[i].annotation = <<>> THEN <<>>
               ELSE <<Locate(params[i].annotation[1], s + 2)>>
        a_end == IF ann = <<>> THEN s + 1 ELSE ann[1].range.end
        def == IF params[i].default = <<>> THEN <<>>
               ELSE <<Locate(params[i].default[1], a_end + 1)>>
        d_end == IF def = <<>> THEN a_end ELSE def[1].range.end
    IN  <<[params[i] EXCEPT !.annotation = ann, !.default = def]>>
            \o LocateParams(params, d_end + 1, i + 1)

\* The offset after the last token of the located parameters, which start
\* at offset s.
ParamsEnd(params, s) ==
    IF params = <<>> THEN s
    ELSE LET p == params[Len(params)]
         IN  IF p.default # <<>> THEN p.default[1].range.end + 1
             ELSE IF p.annotation # <<>> THEN p.annotation[1].range.end + 1
             ELSE s + 2 * Len(params)

RECURSIVE LocateStmt(_, _), LocateBody(_, _, _), LocateAliases(_, _, _)

\* The ranges of a statement that starts at offset s.
LocateStmt(stmt, s) ==
    CASE stmt.node = "AnnAssign" ->
            LET ann == Locate(stmt.annotation, s + 2)
                val == IF stmt.value = <<>> THEN <<>>
                       ELSE <<Locate(stmt.value[1], ann.range.end + 1)>>
            IN  [stmt EXCEPT !.target = At(@, s, s + 1), !.annotation = ann,
                             !.value = val,
                             !.range = Range(s, IF val = <<>> THEN ann.range.end
                                                ELSE val[1].range.end)]
      [] stmt.node = "Assign" ->
            LET n == Len(stmt.targets)
                val == Locate(stmt.value, s + 2 * n)
            IN  [stmt EXCEPT !.targets = [i \in 1..n |->
                                At(stmt.targets[i], s + 2 * (i - 1),
                                   s + 2 * (i - 1) + 1)],
                             !.value = val,
                             !.range = Range(s, val.range.end)]
      [] stmt.node = "Expr" ->
            LET val == Locate(stmt.value, s)
            IN  [stmt EXCEPT !.value = val, !.range = val.range]
      [] stmt.node = "Return" ->
            LET val == IF stmt.ret_value = <<>> THEN <<>>
                       ELSE <<Locate(stmt.ret_value[1], s + 1)>>
            IN  [stmt EXCEPT !.ret_value = val,
                             !.range = Range(s, IF val = <<>> THEN s + 1
                                                ELSE val[1].range.end)]
      [] stmt.node = "FunctionDef" ->
            \* def, the name, `(`, the parameters, `)`, `->` returns, `:`
            LET ps == LocateParams(stmt.params, s + 3, 1)
                p_end == ParamsEnd(ps, s + 3)
                ret == IF stmt.returns = <<>> THEN <<>>
                       ELSE <<Locate(stmt.returns[1], p_end + 2)>>
                r_end == IF ret = <<>> THEN p_end + 1 ELSE ret[1].range.end
                body == LocateBody(stmt.body, r_end + 1, 1)
            IN  [stmt EXCEPT !.params = ps, !.returns = ret, !.body = body,
                             !.range = Range(s, IF body = <<>> THEN r_end + 1
                                                ELSE body[Len(body)].range.end)]
      [] stmt.node \in {"Import", "ImportFrom"} ->
            LET names == LocateAliases(stmt.names,
                            IF stmt.node = "Import" THEN s + 1 ELSE s + 3, 1)
            IN  [stmt EXCEPT !.names = names,
                             !.range = Range(s, names[Len(names)].range.end)]
      [] stmt.node = "ClassDef" -> [stmt EXCEPT !.range = Range(s, s + 4)]
      [] OTHER -> [stmt EXCEPT !.range = Range(s, s + 1)]

LocateBody(body, s, i) ==
    IF i > Len(body) THEN <<>>
    ELSE LET st == LocateStmt(body[i], s)
         IN  <<st>> \o LocateBody(body, st.range.end, i + 1)

\* An alias is its name, or `name as asname`; a comma follows.
LocateAliases(names, s, i) ==
    IF i > Len(names) THEN <<>>
    ELSE LET e == IF names[i].asname = <<>> THEN s + 1 ELSE s + 3
         IN  <<[names[i] EXCEPT !.range = Range(s, e)]>>
                \o LocateAliases(names, e + 1, i + 1)

Store(id) == [ExprName(id) EXCEPT !.ctx = "Store"]

TargetNames == {"a"}
WalkAnnotations ==
    {ExprName("int"), ExprName("foo"),
     ExprSubscript(ExprName("Literal"), ExprIntLiteral(5)),
     ExprSubscript(ExprName("Literal"), ExprName("int"))}
WalkValues == {ExprIntLiteral(5), ExprStringLiteral("f"), ExprName("c")}

AnnAssignStmts(k) ==
    {LocateStmt(StmtAnnAssign(Store(n), ann, v), k * StmtWidth) :
        n \in TargetNames, ann \in WalkAnnotations,
        v \in {<<>>} \cup {<<e>> : e \in WalkValues}}
AssignStmts(k) ==
    {LocateStmt(StmtAssign(ts, v), k * StmtWidth) :
        ts \in {<<Store("a")>>, <<Store("a"), Store("b")>>},
        v \in WalkValues}
ExprStmts(k) ==
    {LocateStmt(StmtExpr(ExprCall(ExprName("reveal_type"), <<ExprName(n)>>)),
                k * StmtWidth) : n \in TargetNames}

Init ==
    /\ scope = EmptyScope
    /\ reporter = <<>>
    /\ data = EmptyData
    /\ stmt_no = 0
    /\ inp = <<>>
    /\ out = <<>>

\* One iteration of the loop of error_check_file; Reporter::add appends.
\* A panic inside check_statement unwinds through error_check_file and main:
\* out records that the process has ended that way.
CheckStatement(stmt) ==
    /\ stmt_no < MaxStmts
    /\ out = <<>>
    /\ \E r \in {check_statement(scope, data, stmt)} :
           /\ scope' = r.scope
           /\ data' = r.data
           /\ reporter' = reporter \o r.diags
           /\ out' = IF r.panic THEN <<[exit |-> "panic"]>> ELSE out
           /\ stmt_no' = IF r.panic THEN stmt_no ELSE stmt_no + 1
    /\ UNCHANGED inp

WalkAnnAssign == \E stmt \in AnnAssignStmts(stmt_no) : CheckStatement(stmt)
WalkAssign == \E stmt \in AssignStmts(stmt_no) : CheckStatement(stmt)
WalkExpr == \E stmt \in ExprStmts(stmt_no) : CheckStatement(stmt)

Next == WalkAnnAssign \/ WalkAssign \/ WalkExpr

Spec == Init /\ [][Next]_vars

(***************************************************************************)
(* Properties of the statement walk.                                       *)
(***************************************************************************)
IsLockedTop(sc, name) ==
    get_top_ref(sc, name) # <<>> /\ get_top_ref(sc, name)[1].is_locked

\* The diagnostics a step adds.
Added == SubSeq(reporter', Len(reporter) + 1, Len(reporter'))

\* The top-level statement a diagnostic points into.
StmtOf(d) == d.range.start \div StmtWidth

Within(r, outer) == outer.start <= r.start /\ r.end <= outer.end

\* C1: lock invariance.  A plain assignment never changes the type stored
\* for a name that is locked in the top frame, whether its check against
\* the locked type succeeds or fails.
C1_LockInvariance ==
    [][\A stmt \in AssignStmts(stmt_no) :
          CheckStatement(stmt) =>
              \A n \in DOMAIN top_scope(scope) :
                  top_scope(scope)[n].is_locked =>
                      /\ n \in DOMAIN top_scope(scope')
                      /\ top_scope(scope')[n].typ = top_scope(scope)[n].typ]_vars

\* C2: an annotated assignment to a name locked in the top frame adds
\* exactly one CantReassignLocked (old type, new annotation type, name, span
\* of the statement), also for an identical annotation, and leaves the
\* binding as it was.
C2_ReannotateLocked ==
    [][\A stmt \in AnnAssignStmts(stmt_no) :
          (CheckStatement(stmt) /\ IsLockedTop(scope, stmt.target.id)) =>
              /\ scope' = scope
              /\ Added # <<>>
              /\ Added[Len(Added)] = CantReassignLockedDiag(
                      get_top_ref(scope, stmt.target.id)[1].typ,
                      synth_annotation(scope, <<stmt.annotation>>).typ,
                      stmt.target.id, stmt.range)
              /\ Cardinality({i \in DOMAIN Added :
                      Added[i].diag = "CantReassignLocked"}) = 1]_vars

\* `a: int` was locked and then annotated with int again.
C2_Witness ==
    /\ reporter # <<>>
    /\ LET d == reporter[Len(reporter)]
       IN  /\ d.diag = "CantReassignLocked"
           /\ d.expected = TypeInt /\ d.got = TypeInt /\ d.name = "a"
    /\ get_top_ref(scope, "a") = <<ScopedType_locked(TypeInt)>>

\* The place of a diagnostic in an annotated assignment: its annotation,
\* then its value, then the lock.
AnnAssignPhase(d, stmt) ==
    IF d.diag = "CantReassignLocked" THEN 3
    ELSE IF Within(d.range, stmt.annotation.range) THEN 1
    ELSE 2

\* C3: the reporter only grows, by appending; the diagnostics of a
\* statement lie after those of every earlier statement; within an
\* annotated assignment the annotation's errors precede those of the value
\* check, which precede the CantReassignLocked.
C3_ReporterOrdered ==
    [][/\ Len(reporter') >= Len(reporter)
       /\ SubSeq(reporter', 1, Len(reporter)) = reporter
       /\ \A i \in DOMAIN Added : StmtOf(Added[i]) = stmt_no
       /\ \A i, j \in DOMAIN reporter' :
             i < j => StmtOf(reporter'[i]) <= StmtOf(reporter'[j])
       /\ \A stmt \in AnnAssignStmts(stmt_no) :
             CheckStatement(stmt) =>
                 \A i, j \in DOMAIN Added :
                     i < j => AnnAssignPhase(Added[i], stmt)
                                 <= AnnAssignPhase(Added[j], stmt)]_vars

\* Two statements `a: int = "f"`: the second adds ExpectedButGot and then
\* CantReassignLocked, after the ExpectedButGot of the first.
C3_Witness ==
    /\ Len(reporter) = 3
    /\ reporter[1].diag = "ExpectedButGot" /\ StmtOf(reporter[1]) = 0
    /\ reporter[2].diag = "ExpectedButGot" /\ StmtOf(reporter[2]) = 1
    /\ reporter[3].diag = "CantReassignLocked" /\ StmtOf(reporter[3]) = 1

(***************************************************************************)
(* SpecRoundTrip: a type is displayed, the text is parsed as an            *)
(* expression, and the expression is interpreted as an annotation in an    *)
(* empty scope (the helper ann of tests/common/mod.rs).                    *)
(***************************************************************************)
Atoms ==
    {TypeAny, TypeUnknown, TypeNever, TypeString, TypeInt, TypeFloat,
     TypeBool, TypeNone, TypeEllipsis}
LiteralTypes ==
    {TypeLiteral(l) : l \in {StringLiteral("a"), IntLiteral(1), IntLiteral(5),
                             FloatLiteral("1.5"), FloatLiteral("1"),
                             BooleanLiteral(TRUE), BooleanLiteral(FALSE),
                             NoneLiteral, EllipsisLiteral}}
RoundTripTypes ==
    Atoms \cup LiteralTypes
        \cup {TypeTuple(ts) : ts \in SeqsUpTo(Atoms, MaxTupleLen) \ {<<>>}}
        \cup {union(<<x, y>>) : x, y \in {Lit1, LitA,
                                          TypeLiteral(BooleanLiteral(TRUE)),
                                          TypeLiteral(NoneLiteral)}}
        \cup {union(<<x, y>>) : x, y \in Atoms \ {TypeAny, TypeUnknown}}

InitRoundTrip ==
    /\ WalkerIdle
    /\ inp \in [t : RoundTripTypes]
    /\ out = <<>>

ApplyRoundTrip ==
    /\ out = <<>>
    /\ LET text == Display(inp.t)
           r == synth_annotation(EmptyScope, <<parse(text)>>)
       IN  out' = <<[text |-> text, typ |-> r.typ, diags |-> r.diags]>>
    /\ UNCHANGED <<scope, reporter, data, stmt_no, inp>>

NextRoundTrip == ApplyRoundTrip

SpecRoundTrip == InitRoundTrip /\ [][NextRoundTrip]_vars

\* C9: annotation round trip.  Interpreting the display of an atom, a tuple
\* of atoms, a literal or a union of atoms or of literals yields the type
\* again and no diagnostic.
C9_RoundTrip ==
    out # <<>> => (out[1].typ = inp.t /\ out[1].diags = <<>>)

(***************************************************************************)
(* SpecAnnotation: synth_annotation applied to annotation expressions, in  *)
(* a scope that binds x to Literal[1] and y to int.                        *)
(***************************************************************************)
MaxSliceLen == 2     \* most arguments in one subscript

AnnScope ==
    [global |-> MapInsert(MapInsert(<<>>, "x", ScopedType_new(Lit1)),
                          "y", ScopedType_locked(TypeInt)),
     scopes |-> <<>>]

AnnLeaves ==
    {ExprName("int"), ExprName("foo"), ExprName("x"), ExprName("y"),
     ExprName("Literal"), ExprIntLiteral(1), ExprStringLiteral("a"),
     ExprNoneLiteral}
AnnBases ==
    {ExprName("Literal"), ExprName("Union"), ExprName("tuple"),
     ExprName("int"), ExprName("foo")}
AnnArgs ==
    AnnLeaves \cup {ExprSubscript(b, a) :
                        b \in AnnBases,
                        a \in {ExprName("int"), ExprName("foo"),
                               ExprIntLiteral(1)}}
AnnExprs ==
    AnnArgs \cup {ExprSubscript(b, sl) :
                    b \in AnnBases,
                    sl \in AnnArgs \cup
                        {ExprTuple(es) :
                            es \in UNION {[1..k -> AnnArgs] :
                                            k \in 2..MaxSliceLen}}}

InitAnnotation ==
    /\ WalkerIdle
    /\ inp \in [ast : {Locate(e, 0) : e \in AnnExprs}]
    /\ out = <<>>

ApplySynthAnnotation ==
    /\ out = <<>>
    /\ LET a == _synth_annotation(AnnScope, <<inp.ast>>)
           r == synth_annotation(AnnScope, <<inp.ast>>)
       IN  out' = <<[stage_a |-> a.ann, typ |-> r.typ, diags |-> r.diags]>>
    /\ UNCHANGED <<scope, reporter, data, stmt_no, inp>>

NextAnnotation == ApplySynthAnnotation

SpecAnnotation == InitAnnotation /\ [][NextAnnotation]_vars

\* The first argument of a partial annotation that is not a Type(Literal).
RECURSIVE FirstNonLiteral(_, _)
FirstNonLiteral(arguments, i) ==
    IF i > Len(arguments) THEN 0
    ELSE IF arguments[i].ak = "Type" /\ arguments[i].value.kind = "Literal"
        THEN FirstNonLiteral(arguments, i + 1)
    ELSE i

\* An annotation is interpreted when it names a type or applies Union,
\* Literal or tuple to interpreted arguments, those of Literal being
\* literal types.
RECURSIVE Interpreted(_)
Interpreted(ann) ==
    \/ ann.ak = "Type"
    \/ /\ ann.ak = "PartialAnnotation"
       /\ IF ann.annotation = "Literal"
          THEN FirstNonLiteral(ann.arguments, 1) = 0
          ELSE \A i \in DOMAIN ann.arguments : Interpreted(ann.arguments[i])

RECURSIVE HasDyn(_)
HasDyn(t) ==
    \/ t.kind \in {"Any", "Unknown"}
    \/ (t.kind \in {"Tuple", "Union"}
            /\ \E i \in DOMAIN t.elems : HasDyn(t.elems[i]))
    \/ (t.kind = "Function"
            /\ (HasDyn(t.ret) \/ \E i \in DOMAIN t.args : HasDyn(t.args[i])))

\* C4: subtype transitivity.  For types a, b, c that contain no Any and no
\* Unknown at any depth, is_subtype(a, b) and is_subtype(b, c) imply
\* is_subtype(a, c).
C4_SubtypeTransitive ==
    (out # <<>> /\ ~HasDyn(inp.a) /\ ~HasDyn(inp.b) /\ ~HasDyn(inp.c)
        /\ out[1].ab /\ out[1].bc) => out[1].ac

\* A chain of three different unions, the first one of literals.
C4_Witness ==
    /\ out # <<>>
    /\ inp.a = union(<<Lit1, LitA>>)
    /\ inp.b = union(<<TypeInt, TypeString>>)
    /\ inp.c = union(<<TypeString, TypeInt>>)
    /\ out[1].ab /\ out[1].bc /\ out[1].ac

\* C5: gradual typing.  Whenever either side is Any or Unknown, is_subtype
\* is true and check adds no ExpectedButGot diagnostic, whatever the other
\* side is.
C5_GradualTyping ==
    (out # <<>> /\ (inp.a.kind \in {"Any", "Unknown"}
                      \/ inp.b.kind \in {"Any", "Unknown"}))
        => (out[1].ab /\ out[1].check_ab.diags = <<>>
                /\ out[1].check_ab.typ = <<inp.a>>)

\* Never against Unknown: the arm order decides it.
C5_Witness ==
    /\ out # <<>>
    /\ inp.a = TypeNever
    /\ inp.b = TypeUnknown
    /\ inp.c = TypeLiteral(NoneLiteral)
    /\ out[1].ab /\ out[1].bc
    /\ out[1].check_ab.diags = <<>>

(***************************************************************************)
(* SpecUnion: union applied to a list of types and to a permutation of it. *)
(***************************************************************************)
FnX == TypeFunction(<<TypeInt>>, <<"x">>, TypeInt)
FnY == TypeFunction(<<TypeInt>>, <<"y">>, TypeInt)

UnionMembers ==
    {TypeAny, TypeNever, TypeInt, TypeFloat, TypeString, Lit1, LitA, FnX, FnY,
     union(<<TypeInt, TypeString>>), union(<<Lit1, LitA>>)}

Perms(n) == {p \in [1..n -> 1..n] : \A i, j \in 1..n : p[i] = p[j] => i = j}
Permute(s, p) == [i \in 1..Len(s) |-> s[p[i]]]

InitUnion ==
    /\ WalkerIdle
    /\ inp \in [types : SeqsUpTo(UnionMembers, MaxUnionArgs)]
    /\ out = <<>>

ApplyUnion ==
    /\ out = <<>>
    /\ \E p \in Perms(Len(inp.types)) :
          out' = <<[result |-> union(inp.types),
                    perm |-> p,
                    permuted |-> union(Permute(inp.types, p))]>>
    /\ UNCHANGED <<scope, reporter, data, stmt_no, inp>>

NextUnion == ApplyUnion

SpecUnion == InitUnion /\ [][NextUnion]_vars

\* C6: union shape.  A Union returned by union() has at least two members,
\* none of them a Union; one surviving member is returned as itself and no
\* surviving member gives Never.
C6_UnionShape ==
    out # <<>> =>
        LET r == out[1].result
            n == Len(collapse_union_types(inp.types))
        IN  /\ r.kind = "Union" =>
                  /\ Len(r.elems) >= 2
                  /\ \A i \in DOMAIN r.elems : r.elems[i].kind # "Union"
            /\ n = 0 => r = TypeNever
            /\ n = 1 => r = collapse_union_types(inp.types)[1]

\* A Union argument is flattened into a Union result.
C6_Witness ==
    /\ out # <<>>
    /\ inp.types = <<union(<<TypeInt, TypeString>>), Lit1, LitA>>
    /\ out[1].result = TypeUnion(<<TypeInt, TypeString>>)

\* C7: union de-duplication.  In a Union returned by union(), no member is
\* a subtype of a different member.
C7_UnionDedup ==
    (out # <<>> /\ out[1].result.kind = "Union") =>
        LET es == out[1].result.elems
        IN  \A i, j \in DOMAIN es : i # j => ~is_subtype(es[i], es[j])

\* Equivalent arms and a strict subtype were dropped, two arms survive.
C7_Witness ==
    /\ out # <<>>
    /\ inp.types = <<FnX, FnY, TypeString>>
    /\ out[1].result = TypeUnion(<<FnX, TypeString>>)

\* C8: order stability.  The unions of two permutations of one list are
\* subtypes of each other.
C8_OrderStable ==
    out # <<>> =>
        /\ is_subtype(out[1].result, out[1].permuted)
        /\ is_subtype(out[1].permuted, out[1].result)

(***************************************************************************)
(* SpecModule: error_check_file walking modules of function definitions,   *)
(* imports, classes, assignments and calls, and then main reporting.       *)
(***************************************************************************)
MaxModuleStmts == 2  \* top-level statements in a module of SpecModule

Int1 == ExprIntLiteral(1)
StrS == ExprStringLiteral("s")

\* def h(): return c      (c is bound nowhere)
DefInner ==
    StmtFunctionDef("h", <<>>, <<>>, <<StmtReturn(<<ExprName("c")>>)>>)

FuncBodies ==
    {<<StmtExpr(ExprCall(ExprName("f"), <<>>))>>,
     <<StmtReturn(<<Int1>>), StmtReturn(<<StrS>>)>>,
     <<StmtReturn(<<StrS>>), StmtReturn(<<Int1>>)>>,
     <<StmtReturn(<<>>)>>,
     <<StmtReturn(<<Int1>>)>>,
     <<DefInner, StmtReturn(<<ExprCall(ExprName("h"), <<>>)>>)>>,
     <<StmtPass>>}

FunctionDefs ==
    {StmtFunctionDef("f", <<>>, <<>>, b) : b \in FuncBodies}
    \cup {StmtFunctionDef("g", <<Parameter("x", <<ExprName("int")>>, <<>>)>>,
                          <<ExprName("int")>>, b) : b \in FuncBodies}
    \cup {StmtFunctionDef("g", <<Parameter("x", <<ExprName("int")>>,
                                           <<StrS>>)>>, <<>>, <<StmtPass>>)}

Imports ==
    {StmtImport(<<Alias("sys", <<>>)>>), StmtImport(<<Alias("sys", <<"s">>)>>)}
ImportFroms ==
    {StmtImportFrom(<<"typing">>, <<Alias("reveal_type", <<>>)>>),
     StmtImportFrom(<<"sys">>, <<Alias("version", <<>>),
                                Alias("version_info", <<>>)>>)}
ValueAssigns ==
    {StmtAssign(<<Store("f")>>, ExprLambda(<<"x">>, ExprName("x"))),
     StmtAssign(<<Store("f")>>, ExprLambda(<<"x">>, Int1)),
     StmtAssign(<<Store("reveal_type")>>, Int1),
     StmtAssign(<<Store("x")>>, ExprBigIntLiteral)}
Revealed ==
    {ExprName("f"), ExprName("c"),
     ExprAttribute(ExprName("s"), "version_info"),
     ExprCall(ExprName("g"), <<StrS>>)}
Calls ==
    {ExprCall(ExprName("f"), <<Int1, Int1>>),
     ExprCall(ExprName("f"), <<Int1>>),
     ExprAttribute(ExprName("s"), "version_info"),
     ExprAttribute(ExprName("sys"), "version_info"),
     ExprCall(ExprName("reveal_type"), <<>>)}
    \cup {ExprCall(ExprName("reveal_type"), <<e>>) : e \in Revealed}
    \cup {ExprCall(ExprName("reveal_type"), <<ExprName("f"), ExprName("c")>>)}

AtStmt(S, k) == {LocateStmt(stmt, k * StmtWidth) : stmt \in S}

ModuleStep(stmt) == stmt_no < MaxModuleStmts /\ CheckStatement(stmt)

ModuleStmts ==
    FunctionDefs \cup Imports \cup ImportFroms \cup ValueAssigns
    \cup {StmtClassDef("f"), StmtPass, StmtReturn(<<Int1>>)}
    \cup {StmtExpr(e) : e \in Calls}

\* error_check_file's loop over the module body: one statement per step.
WalkModule == \E stmt \in AtStmt(ModuleStmts, stmt_no) : ModuleStep(stmt)

\* main after error_check_file has returned Ok(info): the count, the
\* flush, and the line that closes the output.
Main ==
    /\ out = <<>>
    /\ out' = <<[exit |-> "ok", error_count |-> Len(reporter),
                 flushed |-> reporter,
                 message |-> IF Len(reporter) > 0
                             THEN <<Word("Found"),
                                    Digits(DecimalText(Len(reporter))),
                                    Word("errors")>>
                             ELSE <<Word("No errors found")>>]>>
    /\ UNCHANGED <<scope, reporter, data, stmt_no, inp>>

NextModule == WalkModule \/ Main

SpecModule == Init /\ [][NextModule]_vars

(***************************************************************************)
(* Claims about function definitions, imports, calls and the driver,       *)
(* stated over SpecModule.                                                 *)
(***************************************************************************)
\* A def whose body holds, as a statement, a call of the def's own name.
CallsItself(def) ==
    \E i \in DOMAIN def.body :
        /\ def.body[i].node = "Expr"
        /\ def.body[i].value.node = "Call"
        /\ def.body[i].value.func.node = "Name"
        /\ def.body[i].value.func.id = def.name

\* A diagnostic about the name n used as a callee at range r: the name is
\* not in scope, or what it resolved to is not callable.
BlamesCallee(d, n, r) ==
    \/ d.diag = "NotInScope" /\ d.name = n
    \/ /\ d.diag = "Diagnostic"
       /\ d.range = r
       /\ d.body[Len(d.body)] = Word("not callable")

\* C11: self-reference.  Checking `def f(...)` whose body calls f adds no
\* name-not-in-scope and no not-callable diagnostic for f: inside the body
\* the name f resolves to a binding.
C11_SelfReference ==
    [][\A def \in AtStmt(FunctionDefs, stmt_no) :
          (ModuleStep(def) /\ CallsItself(def)) =>
              \A i \in DOMAIN Added, j \in DOMAIN def.body :
                  def.body[j].node = "Expr" =>
                      ~BlamesCallee(Added[i], def.name,
                                    def.body[j].value.func.range)]_vars

\* A type that is, or holds somewhere inside it, a PartialFunction.
RECURSIVE HasPartial(_)
HasPartial(t) ==
    CASE t.kind = "PartialFunction" -> TRUE
      [] t.kind \in {"Tuple", "Union"} ->
            \E i \in DOMAIN t.elems : HasPartial(t.elems[i])
      [] t.kind = "Function" ->
            \/ HasPartial(t.ret)
            \/ \E i \in DOMAIN t.args : HasPartial(t.args[i])
      [] t.kind = "Module" ->
            \E n \in DOMAIN t.bindings : HasPartial(t.bindings[n].typ)
      [] OTHER -> FALSE

\* The types a diagnostic carries.
DiagTypes(d) ==
    CASE d.diag \in {"ExpectedButGot", "CantReassignLocked"} ->
            {d.expected, d.got}
      [] d.diag = "RevealType" -> {d.typ}
      [] OTHER -> {}

NoPartialExposed(sc, dt, rep) ==
    /\ dt.partial_list = <<>>
    /\ \A k \in DOMAIN all_scopes(sc) :
          \A n \in DOMAIN all_scopes(sc)[k] :
              ~HasPartial(all_scopes(sc)[k][n].typ)
    /\ \A i \in DOMAIN rep :
          /\ \A t \in DiagTypes(rep[i]) : ~HasPartial(t)
          /\ rep[i].diag = "Diagnostic" =>
                \A k \in DOMAIN rep[i].body :
                    rep[i].body[k] # Word("Partial Func")

\* C12: after any sequence of statements no scope binding and no type
\* carried by a diagnostic is a PartialFunction, the partial_list queue is
\* empty, and every function definition that was walked has bound its name
\* to a complete Function.
C12_NoPartialFunction ==
    [][/\ NoPartialExposed(scope', data', reporter')
       /\ \A def \in AtStmt(FunctionDefs, stmt_no) :
             (ModuleStep(def) /\ out' = <<>>) =>
                 /\ get_ref(scope', def.name) # <<>>
                 /\ get_ref(scope', def.name)[1].typ.kind = "Function"
                 /\ Len(get_ref(scope', def.name)[1].typ.args)
                        = Len(def.params)
                 /\ get_ref(scope', def.name)[1].typ.arg_names
                        = [i \in DOMAIN def.params |-> def.params[i].name]]_vars

\* `def f(): ...` has been walked and `reveal_type(f)` has shown the
\* Function that the definition bound.
C12_Witness ==
    /\ stmt_no = 2
    /\ get_ref(scope, "f") # <<>>
    /\ get_ref(scope, "f")[1].typ.kind = "Function"
    /\ \E i \in DOMAIN reporter :
          /\ reporter[i].diag = "RevealType"
          /\ reporter[i].typ = get_ref(scope, "f")[1].typ

\* The name an alias introduces: asname if there is one, else the name.
LocalName(alias) == IF alias.asname # <<>> THEN alias.asname[1] ELSE alias.name

\* C13: `import m as n` binds the local name n, and `import m` binds m, in
\* the top frame to the module type of m (so that after `import sys as s`
\* the name s is in scope and s.version_info has the hard-coded type).
C13_ImportBindsLocalName ==
    [][\A stmt \in AtStmt(Imports, stmt_no) :
          ModuleStep(stmt) =>
              \A i \in DOMAIN stmt.names :
                  /\ get_top_ref(scope', LocalName(stmt.names[i])) # <<>>
                  /\ LET bound ==
                            get_top_ref(scope', LocalName(stmt.names[i]))[1].typ
                     IN  /\ bound.kind = "Module"
                         /\ bound.bindings = load_module(stmt.names[i].name)
                         /\ synth(scope',
                                  ExprAttribute(
                                      ExprName(LocalName(stmt.names[i])),
                                      "version_info")).diags = <<>>]_vars

\* f = lambda x: x     and     f(1, 2)
ArityLambda == StmtAssign(<<Store("f")>>, ExprLambda(<<"x">>, ExprName("x")))
ArityCall == StmtExpr(ExprCall(ExprName("f"), <<Int1, Int1>>))

\* The two statements of the arity scenario have been walked, in order,
\* from the start of a module.
ArityScenarioDone ==
    /\ stmt_no = 2
    /\ out = <<>>
    /\ \E r1 \in {check_statement(EmptyScope, EmptyData,
                                  LocateStmt(ArityLambda, 0))} :
          \E r2 \in {check_statement(r1.scope, r1.data,
                                     LocateStmt(ArityCall, StmtWidth))} :
              /\ scope = r2.scope
              /\ reporter = r1.diags \o r2.diags

\* C14: checking `f = lambda x: x` and then `f(1, 2)` leaves exactly one
\* diagnostic in the reporter, the error "expected 1 args, got 2 args" on
\* the span of the call.
C14_ArityScenario ==
    ArityScenarioDone =>
        reporter = <<Diagnostic_error(
                        <<Word("expected"), Digits("1"), Word("args, got"),
                          Digits("2"), Word("args")>>,
                        LocateStmt(ArityCall, StmtWidth).range)>>

\* The definitions `def g(x: int) -> int` whose body is made of return
\* statements only, each bare or with a literal value.
IsLiteralExpr(e) == e.node \in {"NumberLiteral", "StringLiteral"}
ReturnsOnly(def) ==
    /\ def.name = "g" /\ def.returns # <<>> /\ def.body # <<>>
    /\ \A j \in DOMAIN def.body :
          /\ def.body[j].node = "Return"
          /\ def.body[j].ret_value # <<>> =>
                IsLiteralExpr(def.body[j].ret_value[1])

\* What the claim has a return statement contribute to found_types when
\* the declared return type is int.
Contribution(ret) ==
    IF ret.ret_value = <<>> THEN TypeNone
    ELSE LET got == synth(EmptyScope, ret.ret_value[1]).typ
         IN  IF is_subtype(got, TypeInt) THEN got ELSE TypeUnknown

FailingReturns(def) ==
    {j \in DOMAIN def.body :
        /\ def.body[j].ret_value # <<>>
        /\ ~is_subtype(synth(EmptyScope, def.body[j].ret_value[1]).typ,
                       TypeInt)}

ReturnsOneAndS(def) ==
    /\ Len(def.body) = 2
    /\ \E j, k \in DOMAIN def.body :
          /\ def.body[j].ret_value # <<>> /\ def.body[k].ret_value # <<>>
          /\ synth(EmptyScope, def.body[j].ret_value[1]).typ
                = TypeLiteral(IntLiteral(1))
          /\ synth(EmptyScope, def.body[k].ret_value[1]).typ
                = TypeLiteral(StringLiteral("s"))

\* C15: return accumulation inside `def g(x: int) -> int`.  A return whose
\* value fails the check against int adds exactly one ExpectedButGot(int,
\* got) on the value and contributes Unknown, a passing return contributes
\* its synthesized type, a bare return contributes None; the function's
\* return type is the union of the contributions, and for a body that
\* returns 1 and "s", in either order, it is Literal[1].
C15_ReturnAccumulation ==
    [][\A def \in AtStmt(FunctionDefs, stmt_no) :
          (ModuleStep(def) /\ ReturnsOnly(def)) =>
              /\ Added = SelectSeq(
                    [j \in DOMAIN def.body |->
                        IF j \in FailingReturns(def)
                        THEN ExpectedButGotDiag(TypeInt,
                                synth(EmptyScope,
                                      def.body[j].ret_value[1]).typ,
                                def.body[j].ret_value[1].range)
                        ELSE [diag |-> "none"]],
                    LAMBDA d : d.diag # "none")
              /\ get_ref(scope', "g")[1].typ.ret
                    = union([j \in DOMAIN def.body |->
                                Contribution(def.body[j])])
              /\ ReturnsOneAndS(def) =>
                    get_ref(scope', "g")[1].typ.ret
                        = TypeLiteral(IntLiteral(1))]_vars

\* An expression statement that calls the bare name reveal_type with at
\* least one argument.
IsRevealCall(stmt) ==
    /\ stmt.node = "Expr"
    /\ stmt.value.node = "Call"
    /\ stmt.value.func.node = "Name"
    /\ stmt.value.func.id = "reveal_type"
    /\ stmt.value.args # <<>>

\* C16: a call of the bare name reveal_type adds exactly one RevealType
\* diagnostic, carrying the synthesized type and the span of the first
\* argument, after the diagnostics of synthesizing that argument; the call
\* has type Unknown; the scope is unchanged; all of this whether or not the
\* name reveal_type is bound.
C16_RevealType ==
    [][\A stmt \in AtStmt(ModuleStmts, stmt_no) :
          (ModuleStep(stmt) /\ IsRevealCall(stmt)) =>
              LET arg == stmt.value.args[1]
              IN  /\ Added # <<>>
                  /\ Added[Len(Added)]
                        = RevealTypeDiag(synth(scope, arg).typ, arg.range)
                  /\ SubSeq(Added, 1, Len(Added) - 1) = synth(scope, arg).diags
                  /\ \A i \in 1..(Len(Added) - 1) :
                        /\ Added[i].diag # "RevealType"
                        /\ Within(Added[i].range, arg.range)
                  /\ synth(scope, stmt.value).typ = TypeUnknown
                  /\ scope' = scope
                  /\ out' = <<>>]_vars

\* `reveal_type = 1` and then `reveal_type(c)` with c unbound: the name is
\* bound to a type that is no function, and the RevealType follows the
\* NotInScope of its argument.
C16_Witness ==
    /\ get_ref(scope, "reveal_type") # <<>>
    /\ get_ref(scope, "reveal_type")[1].typ.kind # "Function"
    /\ Len(reporter) = 2
    /\ reporter[1] = NotInScopeDiag("c", reporter[2].range)
    /\ reporter[2].diag = "RevealType"
    /\ reporter[2].typ = TypeUnknown

ErrorsIn(rep) == {i \in DOMAIN rep : rep[i].level = "Error"}

\* C17: the count the driver reports counts only error diagnostics.
\* Reveal-type diagnostics are informational and never increase it: a file
\* whose only diagnostics are reveal-type results is reported as having no
\* errors.
C17_ErrorCount ==
    (out # <<>> /\ out[1].exit = "ok") =>
        /\ out[1].error_count = Cardinality(ErrorsIn(reporter))
        /\ ErrorsIn(reporter) = {} =>
              out[1].message = <<Word("No errors found")>>

\* C18: error propagation and termination.  In a module built only from
\* supported statement and expression shapes every top-level statement is
\* passed to check_statement, in source order: whatever diagnostics a
\* statement adds, the walk goes on to the next statement and is never
\* stopped.
C18_WalkContinues ==
    [][\A stmt \in AtStmt(ModuleStmts, stmt_no) :
          ModuleStep(stmt) =>
              /\ stmt_no' = stmt_no + 1
              /\ out' = <<>>]_vars

\* C19: frame discipline.  Every frame pushed on entering a function body
\* is popped when the body has been walked, also for nested definitions and
\* for bodies that add diagnostics: pop_scope is never reached with no
\* pushed frame (a function definition never aborts on its assertion), the
\* module-global frame is never popped, and no pushed frame is left after a
\* top-level statement.  A definition walked below a pushed frame leaves
\* exactly that frame.
C19_FrameDiscipline ==
    [][/\ \A stmt \in AtStmt(ModuleStmts, stmt_no) :
             ModuleStep(stmt) =>
                 /\ out' = <<>> => scope'.scopes = <<>>
                 /\ DOMAIN scope.global \subseteq DOMAIN scope'.global
       /\ \A def \in AtStmt(FunctionDefs, stmt_no) :
             ModuleStep(def) =>
                 /\ out' = <<>>
                 /\ scope'.scopes = <<>>
                 /\ data'.returns = data.returns
                 /\ \E r \in {check_statement(add_scope(scope), data, def)} :
                       /\ ~r.panic
                       /\ Len(r.scope.scopes) = 1
                       /\ r.scope.global = scope.global]_vars

\* `def f():` holding `def h(): return c` and `return h()` has been walked:
\* two frames were pushed, the inner body added a diagnostic, and none is
\* left; h was bound in the frame of f only.
C19_Witness ==
    /\ stmt_no >= 1
    /\ out = <<>>
    /\ scope.scopes = <<>>
    /\ get_ref(scope, "f") # <<>>
    /\ get_ref(scope, "f")[1].typ.kind = "Function"
    /\ get_ref(scope, "h") = <<>>
    /\ \E i \in DOMAIN reporter : /\ reporter[i].diag = "NotInScope"
                                  /\ reporter[i].name = "c"
    /\ \A i \in DOMAIN reporter : reporter[i].diag = "NotInScope"

(***************************************************************************)
(* SpecReporter: threads that hold clones of one Reporter                  *)
(* (Arc<Mutex<Vec<Box<dyn Diag>>>>) and call add, extend and flush on it.  *)
(* reporter is the shared Vec; inp[t] is the sequence of calls thread t    *)
(* makes; data holds the mutex and, per thread, the call it is at (pos),   *)
(* whether it is inside a call holding the guard (pc), how many elements   *)
(* the call has handled (cursor) and what a flush has written so far;      *)
(* out collects the finished flushes.  One step is one acquisition of the  *)
(* lock, one push, one write to the output, or the drop of the guard.      *)
(***************************************************************************)
NumThreads == 2   \* threads holding a clone of the Reporter
BatchLen == 2     \* diagnostics handed to one extend

Threads == 1..NumThreads
ReporterOps == {"add", "extend", "flush"}
\* Each thread makes two calls.
Programs == ReporterOps \X ReporterOps

\* The diagnostics thread t passes in its k-th call.
Item(t, k, j) == [by |-> t, call |-> k, no |-> j]
ItemsOf(prog, t, k) ==
    CASE prog[k] = "add" -> <<Item(t, k, 1)>>
      [] prog[k] = "extend" -> [j \in 1..BatchLen |-> Item(t, k, j)]
      [] OTHER -> <<>>

\* Threads are interchangeable, so of the assignments of programs to
\* threads that differ only by renaming the threads one is started: the
\* one whose programs are in ascending order.
OpRank(op) == CASE op = "add" -> 0 [] op = "extend" -> 1 [] op = "flush" -> 2
RECURSIVE ProgRank(_, _)
ProgRank(prog, k) ==
    IF k = 0 THEN 0
    ELSE ProgRank(prog, k - 1) * Cardinality(ReporterOps) + OpRank(prog[k])
Assignments ==
    {f \in [Threads -> Programs] :
        \A t \in Threads :
            t < NumThreads =>
                ProgRank(f[t], Len(f[t]))
                    <= ProgRank(f[t + 1], Len(f[t + 1]))}

InitReporter ==
    /\ scope = EmptyScope
    /\ stmt_no = 0
    /\ reporter = <<>>
    /\ out = <<>>
    /\ inp \in Assignments
    /\ data = [mutex |-> <<>>,
               pc |-> [t \in Threads |-> "idle"],
               pos |-> [t \in Threads |-> 1],
               cursor |-> [t \in Threads |-> 0],
               written |-> [t \in Threads |-> <<>>]]

\* A lock that excludes nobody.
Mutex_lock_unguarded(mutex) == TRUE

\* self.0.lock(): the calling thread goes on once no guard is alive.
Mutex_lock(mutex) == mutex = <<>>

InCall(t, op) ==
    /\ data.pc[t] = "holding"
    /\ inp[t][data.pos[t]] = op

\* let errors = self.0.lock().unwrap(), at the start of add, extend, flush
ReporterLock(t) ==
    /\ data.pc[t] = "idle"
    /\ data.pos[t] <= Len(inp[t])
    /\ Mutex_lock(data.mutex)
    /\ data' = [data EXCEPT !.mutex = <<t>>, !.pc[t] = "holding",
                            !.cursor[t] = 0, !.written[t] = <<>>]
    /\ UNCHANGED <<scope, reporter, stmt_no, inp, out>>

\* add: errors.push(err.into())
ReporterAdd(t) ==
    /\ InCall(t, "add")
    /\ data.cursor[t] = 0
    /\ reporter' = Append(reporter, ItemsOf(inp[t], t, data.pos[t])[1])
    /\ data' = [data EXCEPT !.cursor[t] = 1]
    /\ UNCHANGED <<scope, stmt_no, inp, out>>

\* extend: errors.extend(new_errors.into()), one element of the batch
ReporterExtend(t) ==
    /\ InCall(t, "extend")
    /\ data.cursor[t] < BatchLen
    /\ reporter' = Append(reporter,
                      ItemsOf(inp[t], t, data.pos[t])[data.cursor[t] + 1])
    /\ data' = [data EXCEPT !.cursor[t] = @ + 1]
    /\ UNCHANGED <<scope, stmt_no, inp, out>>

\* flush: e.write(output, ...) returns Ok for the next element of the Vec
ReporterFlushWrite(t) ==
    /\ InCall(t, "flush")
    /\ data.cursor[t] < Len(reporter)
    /\ data' = [data EXCEPT !.cursor[t] = @ + 1,
                            !.written[t] = Append(@, reporter[data.cursor[t] + 1])]
    /\ UNCHANGED <<scope, reporter, stmt_no, inp, out>>

\* flush: e.write returns Err and `?` leaves flush; the guard is dropped.
ReporterFlushFail(t) ==
    /\ InCall(t, "flush")
    /\ data.cursor[t] < Len(reporter)
    /\ out' = Append(out, [by |-> t, result |-> "Err",
                           written |-> data.written[t]])
    /\ data' = [data EXCEPT !.mutex = <<>>, !.pc[t] = "idle",
                            !.pos[t] = @ + 1]
    /\ UNCHANGED <<scope, reporter, stmt_no, inp>>

CallDone(t) ==
    \/ InCall(t, "add") /\ data.cursor[t] = 1
    \/ InCall(t, "extend") /\ data.cursor[t] = BatchLen
    \/ InCall(t, "flush") /\ data.cursor[t] = Len(reporter)

\* The end of add, extend or flush: the guard goes out of scope.
ReporterUnlock(t) ==
    /\ CallDone(t)
    /\ out' = IF inp[t][data.pos[t]] = "flush"
              THEN Append(out, [by |-> t, result |-> "Ok",
                                written |-> data.written[t]])
              ELSE out
    /\ data' = [data EXCEPT !.mutex = <<>>, !.pc[t] = "idle",
                            !.pos[t] = @ + 1]
    /\ UNCHANGED <<scope, reporter, stmt_no, inp>>

NextReporter ==
    \E t \in Threads :
        \/ ReporterLock(t) \/ ReporterAdd(t) \/ ReporterExtend(t)
        \/ ReporterFlushWrite(t) \/ ReporterFlushFail(t) \/ ReporterUnlock(t)

SpecReporter == InitReporter /\ [][NextReporter]_vars

\* The diagnostics thread t has passed to the Reporter so far, in the
\* order it passed them.
RECURSIVE PassedUpTo(_, _, _)
PassedUpTo(prog, t, k) ==
    IF k = 0 THEN <<>> ELSE PassedUpTo(prog, t, k - 1) \o ItemsOf(prog, t, k)

Passed(dt, progs, t) ==
    PassedUpTo(progs[t], t, dt.pos[t] - 1)
        \o (IF dt.pc[t] = "holding" /\ progs[t][dt.pos[t]] # "flush"
            THEN SubSeq(ItemsOf(progs[t], t, dt.pos[t]), 1, dt.cursor[t])
            ELSE <<>>)

\* Serialised append: what each thread passed is in the Vec exactly once
\* and in the order it was passed, and every extend batch is contiguous:
\* each diagnostic of a batch but the first lies right after the one before
\* it in the batch.
SerialisedAppend(rep, dt, progs) ==
    /\ \A t \in Threads :
          SelectSeq(rep, LAMBDA d : d.by = t) = Passed(dt, progs, t)
    /\ \A i \in DOMAIN rep :
          rep[i].no > 1 =>
              /\ i > 1
              /\ rep[i - 1] = Item(rep[i].by, rep[i].call, rep[i].no - 1)

\* C20: with several threads on clones of one Reporter, appends are
\* serialised and flush has snapshot semantics.  Every diagnostic passed to
\* add or extend is in the sequence exactly once; the diagnostics of one
\* thread keep their order and an extend batch is contiguous; while a flush
\* is under way no append takes effect, so a flush that returns Ok has
\* written exactly the sequence as it stood when it took the lock, and one
\* that stops on a write error has written a prefix of it.
C20_SerialisedSnapshot ==
    [][/\ SerialisedAppend(reporter', data', inp')
       /\ \A t \in Threads :
             InCall(t, "flush") =>
                 /\ reporter' = reporter
                 /\ data.written[t] = SubSeq(reporter, 1, data.cursor[t])
                 /\ ReporterUnlock(t) =>
                       out'[Len(out')] = [by |-> t, result |-> "Ok",
                                          written |-> reporter]
                 /\ ReporterFlushFail(t) =>
                       /\ out'[Len(out')].result = "Err"
                       /\ out'[Len(out')].written
                             = SubSeq(reporter, 1, data.cursor[t])]_vars

\* A flush has written, in full, a sequence holding diagnostics of both
\* threads with an extend batch among them, while the other thread waits at
\* a call of its own.
C20_Witness ==
    /\ \E i \in DOMAIN out :
          /\ out[i].result = "Ok"
          /\ out[i].written = reporter
          /\ \A t \in Threads :
                \E j \in DOMAIN reporter : reporter[j].by = t
          /\ \E j \in DOMAIN reporter : reporter[j].no = BatchLen
    /\ \E t \in Threads : data.pc[t] = "idle" /\ data.pos[t] <= Len(inp[t])

(***************************************************************************)
(* Further claims about union, stated over SpecUnion.                      *)
(***************************************************************************)
\* The reference rule: member i of the flattened list is dropped iff it is
\* a strict subtype of another member, or mutually a subtype of a member
\* that occurs earlier.
DroppedByRule(fl, i) ==
    \E j \in DOMAIN fl :
        /\ j # i
        /\ is_subtype(fl[i], fl[j])
        /\ (~is_subtype(fl[j], fl[i]) \/ j < i)

RECURSIVE SurvivorsFrom(_, _)
SurvivorsFrom(fl, i) ==
    IF i > Len(fl) THEN <<>>
    ELSE (IF DroppedByRule(fl, i) THEN <<>> ELSE <<fl[i]>>)
            \o SurvivorsFrom(fl, i + 1)

\* C21: union() collapses exactly as the reference rule says.  After
\* flattening, a member is dropped iff the rule drops it, the others are
\* kept in input order; no survivor gives Never, one survivor gives that
\* member, more give their Union.  So union([Int, Float]) = Float,
\* union([Int, Int]) = Int and union([]) = Never.
C21_CollapseRule ==
    out # <<>> =>
        LET kept == SurvivorsFrom(flatten(inp.types), 1)
        IN  /\ out[1].result = (IF Len(kept) = 0 THEN TypeNever
                                ELSE IF Len(kept) = 1 THEN kept[1]
                                ELSE TypeUnion(kept))
            /\ inp.types = <<TypeInt, TypeFloat>> => out[1].result = TypeFloat
            /\ inp.types = <<TypeInt, TypeInt>> => out[1].result = TypeInt
            /\ inp.types = <<>> => out[1].result = TypeNever

\* int | str, float, str: int is dropped as a strict subtype of float and
\* the second str as the later of two equal members.
C21_Witness ==
    /\ out # <<>>
    /\ inp.types = <<union(<<TypeInt, TypeString>>), TypeFloat, TypeString>>
    /\ out[1].result = TypeUnion(<<TypeString, TypeFloat>>)

\* The return context of an enclosing function that has declared int and
\* has found one return so far.
EnclosingReturns ==
    <<[annotation |-> TypeInt, found_types |-> <<TypeLiteral(IntLiteral(1))>>]>>

\* C22: return-context save and restore.  After a function definition the
\* active return context is what it was before: None at module level, and
\* the context of the enclosing function, with its found_types unchanged,
\* when the definition is nested (so returns inside the nested body never
\* add to the enclosing found_types).  A return at module level adds the
\* error "Can't return outside of function." and changes nothing else.
C22_ReturnContext ==
    [][/\ \A def \in AtStmt(FunctionDefs, stmt_no) :
             ModuleStep(def) =>
                 /\ data' = data
                 /\ data'.returns = <<>>
                 /\ \E r \in {check_statement(
                                add_scope(scope),
                                [data EXCEPT !.returns = EnclosingReturns],
                                def)} :
                       /\ ~r.panic
                       /\ r.data.returns = EnclosingReturns
       /\ \A ret \in AtStmt({StmtReturn(<<Int1>>)}, stmt_no) :
             ModuleStep(ret) =>
                 /\ Added = <<Diagnostic_error(
                        <<Word("Can't return outside of function.")>>,
                        ret.range)>>
                 /\ scope' = scope
                 /\ data' = data
                 /\ out' = <<>>]_vars

\* A definition whose body returns twice was walked at module level, and
\* a return at module level was reported, with no return context left.
C22_Witness ==
    /\ stmt_no = 2
    /\ data.returns = <<>>
    /\ get_ref(scope, "g") # <<>>
    /\ get_ref(scope, "g")[1].typ.kind = "Function"
    /\ get_ref(scope, "g")[1].typ.ret = TypeLiteral(IntLiteral(1))
    /\ Len(reporter) = 2
    /\ reporter[1].diag = "ExpectedButGot"
    /\ reporter[2].diag = "Diagnostic"
    /\ reporter[2].body = <<Word("Can't return outside of function.")>>

(***************************************************************************)
(* SpecScope: add_scope, set and pop_scope applied in any order to one     *)
(* Scope.  inp is the stack of the scopes as they were at each add_scope   *)
(* that has not been popped yet; out names the last call.                  *)
(***************************************************************************)
MaxFrames == 2   \* pushed frames

ScopeNames == {"a", "b"}
ScopeValues == {ScopedType_new(TypeInt), ScopedType_locked(TypeString)}

InitScope ==
    /\ scope = EmptyScope
    /\ reporter = <<>>
    /\ data = EmptyData
    /\ stmt_no = 0
    /\ inp = <<>>
    /\ out = <<>>

ScopeAlive == ~(out # <<>> /\ out[1].call = "panic")

ScopeAdd ==
    /\ ScopeAlive
    /\ Len(scope.scopes) < MaxFrames
    /\ scope' = add_scope(scope)
    /\ inp' = Append(inp, scope)
    /\ out' = <<[call |-> "add_scope"]>>
    /\ UNCHANGED <<reporter, data, stmt_no>>

ScopeSet ==
    /\ ScopeAlive
    /\ \E name \in ScopeNames, value \in ScopeValues :
          scope' = Scope_set(scope, name, value)
    /\ out' = <<[call |-> "set"]>>
    /\ UNCHANGED <<reporter, data, stmt_no, inp>>

\* pop_scope; with no pushed frame its assert_ne! panics.
ScopePop ==
    /\ ScopeAlive
    /\ IF scope.scopes = <<>>
       THEN /\ out' = <<[call |-> "panic"]>>
            /\ UNCHANGED <<scope, inp>>
       ELSE /\ scope' = pop_scope(scope)
            /\ inp' = SubSeq(inp, 1, Len(inp) - 1)
            /\ out' = <<[call |-> "pop_scope"]>>
    /\ UNCHANGED <<reporter, data, stmt_no>>

NextScope == ScopeAdd \/ ScopeSet \/ ScopePop

SpecScope == InitScope /\ [][NextScope]_vars

\* The frames from the global one up to the top one.
FramesUp(sc) == <<sc.global>> \o sc.scopes

\* The binding of the innermost frame that contains the name.
Innermost(sc, name) ==
    LET holds == {k \in DOMAIN FramesUp(sc) : name \in DOMAIN FramesUp(sc)[k]}
    IN  IF holds = {} THEN <<>>
        ELSE <<FramesUp(sc)[CHOOSE k \in holds : \A l \in holds : l <= k][name]>>

\* C23: scope semantics after any sequence of add_scope, set and
\* pop_scope.  set changes only the top frame, where it inserts or
\* overwrites the one name; get returns the binding of the innermost frame
\* holding the name; get_top looks at the top frame only; and a pop_scope
\* restores the scope to exactly what it was before the matching add_scope,
\* whatever was set in between.
C23_ScopeSemantics ==
    [][/\ (out' = <<[call |-> "set"]>>) =>
             /\ Len(FramesUp(scope')) = Len(FramesUp(scope))
             /\ \A k \in DOMAIN FramesUp(scope) :
                   k < Len(FramesUp(scope)) =>
                       FramesUp(scope')[k] = FramesUp(scope)[k]
             /\ \E name \in ScopeNames, value \in ScopeValues :
                   LET top == FramesUp(scope)[Len(FramesUp(scope))]
                       top_ == FramesUp(scope')[Len(FramesUp(scope'))]
                   IN  /\ DOMAIN top_ = DOMAIN top \cup {name}
                       /\ top_[name] = value
                       /\ \A n \in DOMAIN top : n # name => top_[n] = top[n]
       /\ \A name \in ScopeNames :
             /\ get_ref(scope', name) = Innermost(scope', name)
             /\ get_top_ref(scope', name)
                   = LET top_ == FramesUp(scope')[Len(FramesUp(scope'))]
                     IN  IF name \in DOMAIN top_ THEN <<top_[name]>> ELSE <<>>
       /\ (out' = <<[call |-> "pop_scope"]>>) => scope' = inp[Len(inp)]]_vars

\* A frame was pushed over a global frame that binds a and b, a was set in
\* it, shadowing the global a, and a second frame was pushed, set and
\* popped again.
C23_Witness ==
    /\ out = <<[call |-> "pop_scope"]>>
    /\ Len(scope.scopes) = 1
    /\ scope.global = MapInsert(MapInsert(<<>>, "a", ScopedType_locked(TypeString)),
                                "b", ScopedType_new(TypeInt))
    /\ scope.scopes[1] = MapInsert(<<>>, "a", ScopedType_new(TypeInt))
    /\ get_ref(scope, "a") = <<ScopedType_new(TypeInt)>>
    /\ get_ref(scope, "b") = <<ScopedType_new(TypeInt)>>
    /\ get_top_ref(scope, "b") = <<>>

\* C24: union() is an upper bound of its inputs.  For a list of types free
\* of Any and Unknown, every element of the list is a subtype of the union
\* of the list; in particular a literal type is a subtype of a union of
\* literals that lists it.
C24_UpperBound ==
    (out # <<>> /\ \A i \in DOMAIN inp.types : ~HasDyn(inp.types[i])) =>
        \A i \in DOMAIN inp.types : is_subtype(inp.types[i], out[1].result)

\* C25: union() returns Never only for a list that has no member other
\* than Never after flattening (the empty list included).  A list with at
\* least one member that is not Never, whatever Any or Unknown members it
\* also has and in whatever order, never collapses to Never.
C25_NeverOnlyFromNever ==
    out # <<>> =>
        (out[1].result = TypeNever =>
            \A i \in DOMAIN flatten(inp.types) :
                flatten(inp.types)[i] = TypeNever)

(***************************************************************************)
(* SpecBindings: error_check_file on modules that lock names with a bare   *)
(* annotation and then bind them again, define functions whose bodies      *)
(* annotate or assign names of the enclosing frame, and call functions     *)
(* whose parameters have defaults.                                         *)
(***************************************************************************)
MaxBindingStmts == 2  \* top-level statements in a module of SpecBindings

Int2 == ExprIntLiteral(2)
LockedNames == {"f", "sys", "reveal_type", "x"}

\* n: int
BindingLocks ==
    {StmtAnnAssign(Store(n), ExprName("int"), <<>>) : n \in LockedNames}
\* def f(): pass / class f / import sys / from typing import reveal_type
BindingBinders ==
    {StmtFunctionDef("f", <<>>, <<>>, <<StmtPass>>),
     StmtClassDef("f"),
     StmtImport(<<Alias("sys", <<>>)>>),
     StmtImportFrom(<<"typing">>, <<Alias("reveal_type", <<>>)>>)}
\* def f(): x: str = "s"; return x / def f(): x = "s"; return x /
\* def g(x: str): x = "s"; return x
ReturnX == StmtReturn(<<ExprName("x")>>)
BodyBinders ==
    {StmtFunctionDef("f", <<>>, <<>>,
        <<StmtAnnAssign(Store("x"), ExprName("str"), <<StrS>>), ReturnX>>),
     StmtFunctionDef("f", <<>>, <<>>,
        <<StmtAssign(<<Store("x")>>, StrS), ReturnX>>),
     StmtFunctionDef("g", <<Parameter("x", <<ExprName("str")>>, <<>>)>>,
        <<>>, <<StmtAssign(<<Store("x")>>, StrS), ReturnX>>)}
\* def g(x: int = 1): pass
DefaultDefs ==
    {StmtFunctionDef("g", <<Parameter("x", <<ExprName("int")>>, <<Int1>>)>>,
                     <<>>, <<StmtPass>>)}
\* g(1) / g(2) / reveal_type(x)
BindingCalls ==
    {StmtExpr(ExprCall(ExprName("g"), <<Int1>>)),
     StmtExpr(ExprCall(ExprName("g"), <<Int2>>)),
     StmtExpr(ExprCall(ExprName("reveal_type"), <<ExprName("x")>>))}

\* The literal expressions synth has an arm for.
LiteralExprs ==
    {StrS, Int1, ExprFloatLiteral("1.5"), ExprBooleanLiteral(TRUE),
     ExprNoneLiteral}
\* x: Literal[v] = v / x: None = None
LiteralAssigns ==
    {StmtAnnAssign(Store("x"), ExprSubscript(ExprName("Literal"), v), <<v>>) :
        v \in LiteralExprs}
    \cup {StmtAnnAssign(Store("x"), ExprNoneLiteral, <<ExprNoneLiteral>>)}

BindingStmts ==
    BindingLocks \cup BindingBinders \cup BodyBinders \cup DefaultDefs
    \cup BindingCalls \cup LiteralAssigns

BindingStep(stmt) == stmt_no < MaxBindingStmts /\ CheckStatement(stmt)

\* error_check_file's loop over the module body: one statement per step.
WalkBindings == \E stmt \in AtStmt(BindingStmts, stmt_no) : BindingStep(stmt)

NextBindings == WalkBindings

SpecBindings == Init /\ [][NextBindings]_vars

\* The names a def, class, import or from-import statement binds.
BoundNames(stmt) ==
    CASE stmt.node \in {"FunctionDef", "ClassDef"} -> {stmt.name}
      [] stmt.node \in {"Import", "ImportFrom"} ->
            {LocalName(stmt.names[i]) : i \in DOMAIN stmt.names}
      [] OTHER -> {}

\* C26: a def, class, import or from-import statement that names a binding
\* locked in the top frame either leaves the binding (type and lock flag)
\* unchanged or adds a diagnostic; it never silently replaces it.
C26_LockedProtected ==
    [][\A stmt \in AtStmt(BindingBinders, stmt_no) :
          BindingStep(stmt) =>
              \A n \in BoundNames(stmt) :
                  IsLockedTop(scope, n) =>
                      \/ get_top_ref(scope', n) = get_top_ref(scope, n)
                      \/ Added # <<>>]_vars

\* C27: whenever a function definition with return annotation int is
\* processed without adding a diagnostic, the return type of the Function
\* bound to its name is a subtype of int, a body with a bare `return` or
\* with no return statement included.
C27_ReturnEnforced ==
    [][\A stmt \in AtStmt(FunctionDefs, stmt_no) :
          (ModuleStep(stmt) /\ stmt.returns # <<>> /\ Added = <<>>) =>
              /\ get_top_ref(scope', stmt.name) # <<>>
              /\ get_top_ref(scope', stmt.name)[1].typ.kind = "Function"
              /\ is_subtype(get_top_ref(scope', stmt.name)[1].typ.ret,
                            TypeInt)]_vars

BindingDefs ==
    {stmt \in BindingStmts : stmt.node = "FunctionDef"}

\* after differs from before in no frame but the top one, and there only
\* in the binding of name, which is unlocked.
OnlyBinds(before, after, name) ==
    /\ Len(after.scopes) = Len(before.scopes)
    /\ \A k \in DOMAIN all_scopes(before) :
           \E old \in {all_scopes(before)[k]}, new \in {all_scopes(after)[k]} :
               /\ DOMAIN new = DOMAIN old \cup (IF k = 1 THEN {name} ELSE {})
               /\ \A n \in DOMAIN old : (k = 1 /\ n = name) \/ new[n] = old[n]
               /\ k = 1 => ~new[name].is_locked

NoCantReassign(diags) ==
    \A i \in DOMAIN diags : diags[i].diag # "CantReassignLocked"

\* C28: processing a function definition leaves every binding of every
\* enclosing frame unchanged, except that the function's own name is bound,
\* unlocked, in the frame that was on top when the definition began; a body
\* that annotates or assigns a name locked in an outer frame adds no
\* CantReassignLocked.  The definition is taken both as the top-level
\* statement it is and as it would be processed one frame further in.
C28_BodyIsolation ==
    [][\A stmt \in AtStmt(BindingDefs, stmt_no) :
          BindingStep(stmt) =>
              /\ OnlyBinds(scope, scope', stmt.name)
              /\ NoCantReassign(Added)
              /\ \E r \in {check_statement(add_scope(scope), data, stmt)} :
                     /\ OnlyBinds(add_scope(scope), r.scope, stmt.name)
                     /\ NoCantReassign(r.diags)]_vars

\* After `x: int` and `def f(): x: str = "s"; return x` the module's x is
\* still the locked int, f returns the str its body bound, and nothing was
\* reported.
C28_Witness ==
    /\ stmt_no = 2
    /\ reporter = <<>>
    /\ get_top_ref(scope, "x") = <<ScopedType_locked(TypeInt)>>
    /\ get_top_ref(scope, "f") # <<>>
    /\ get_top_ref(scope, "f")[1].typ.kind = "Function"
    /\ get_top_ref(scope, "f")[1].typ.ret = TypeString
    /\ ~get_top_ref(scope, "f")[1].is_locked

\* The binding of g a definition with a default leaves when nothing is
\* reported.
BoundByDefaultDef(sc) ==
    \E def \in AtStmt(DefaultDefs, 0) :
        \E r \in {check_statement(EmptyScope, EmptyData, def)} :
            r.diags = <<>> /\ get_ref(sc, "g") = get_ref(r.scope, "g")

\* C29: for `def g(x: int = 1)`, whose default checks against the
\* annotation, the Function bound to g has parameter type int for x, and a
\* later call of g passing an argument whose type is a subtype of int adds
\* no ExpectedButGot diagnostic.
C29_ParamIsAnnotation ==
    [][/\ \A def \in AtStmt(DefaultDefs, stmt_no) :
              (BindingStep(def) /\ Added = <<>>) =>
                  /\ get_top_ref(scope', "g") # <<>>
                  /\ get_top_ref(scope', "g")[1].typ.kind = "Function"
                  /\ get_top_ref(scope', "g")[1].typ.args = <<TypeInt>>
       /\ \A call \in AtStmt(BindingCalls, stmt_no) :
              (/\ BindingStep(call)
               /\ call.value.func.id = "g"
               /\ BoundByDefaultDef(scope)
               /\ is_subtype(synth(scope, call.value.args[1]).typ, TypeInt))
              => \A i \in DOMAIN Added : Added[i].diag # "ExpectedButGot"]_vars

\* C30: for every literal expression v (string, int, float, bool, None) the
\* annotated assignments `x: Literal[v] = v` and `x: None = None`, made
\* while x is not locked, add no diagnostic: the type synth gives to v is a
\* subtype of the type the annotation interpreter gives to the same literal.
C30_LiteralSatisfiesItself ==
    [][\A stmt \in AtStmt(LiteralAssigns, stmt_no) :
          (BindingStep(stmt) /\ ~IsLockedTop(scope, "x")) =>
              Added = <<>>]_vars

====
